---------------------------- MODULE Spec2Model ----------------------------
(***************************************************************************)
(* A model of SubManager: the rate-limited GitHub client                   *)
(* (src/src/github_client.py), the subscription state and its delta        *)
(* (src/src/models.py), the promotion step (src/src/promotion.py) and the  *)
(* reconciliation run (src/src/subscription_manager.py).                   *)
(*                                                                         *)
(* Four specifications share the variables:                                *)
(*   SpecRequest  one call of GitHubClient._make_request against a server  *)
(*                that may answer each attempt with any response, wrapped  *)
(*                by follow_user / unfollow_user;                          *)
(*   SpecGate     many concurrent _make_request calls of one client        *)
(*                going through its semaphore;                             *)
(*   SpecDelta    the delta of SubscriptionState over arbitrary sets;      *)
(*   Spec         one run of SubscriptionManager.run.                      *)
(***************************************************************************)
EXTENDS Integers, Sequences, FiniteSets, TLC

VARIABLES
    \* ---- one _make_request call (SpecRequest)
    caller,        \* which method issued the call
    req_pc,        \* "idle", "loop", "returned", "raised"
    attempt,       \* the for-loop variable of _make_request
    retry_delay,   \* the local retry_delay
    sleeps,        \* the durations passed to asyncio.sleep, in order
    responses,     \* the response to every HTTP attempt made, in order
    result,        \* what _make_request returned, or the status it raised
    rate_limit,    \* GitHubClient.rate_limit
    now,           \* the clock, in ticks (TicksPerSecond ticks a second)
    call_result,   \* what follow_user / unfollow_user returned
    \* ---- the semaphore of one client (SpecGate)
    task_pc,       \* each concurrent caller's position in _make_request
    sem_value,     \* the semaphore's free permits
    \* ---- one run of SubscriptionManager.run (Spec)
    run_pc,             \* where the run is
    srv_followers,      \* the followers the server holds for the account
    srv_following,      \* the accounts the server says the account follows
    ban_lists,          \* ConfigManager.ban_lists
    promotion,          \* Config.promotion
    followers,          \* state.followers
    following,          \* state.following
    ban_list_followers, \* state.ban_list_followers
    ban_list_following, \* state.ban_list_following
    promoted_users,     \* state.promoted_users
    file,               \* promoted_users.txt, as a list of PromotedUser
    file_at_start,      \* promoted_users.txt when the run started
    file_readable,      \* whether the run could read promoted_users.txt
    fetch_log,          \* how the page requests of the two fetches ended
    users_to_follow,    \* the sorted list _process_follows works on
    users_to_unfollow,  \* the sorted list _process_unfollows works on
    follow_calls,       \* the follow_user calls issued, with their results
    unfollow_calls,     \* the unfollow_user calls issued, with their results
    \* ---- one call of batch_follow / batch_unfollow (SpecBatch)
    batch_pc,        \* "idle", "creating", "gathering", "returned"
    batch_kind,      \* "follow" for batch_follow, "unfollow" for batch_unfollow
    batch_usernames, \* the argument usernames
    batch_tasks,     \* the list tasks, with what became of each coroutine
    batch_now,       \* the clock, in units of the argument delay
    batch_results,   \* the dictionary returned
    \* ---- one call of get_followers / get_following (SpecPages)
    paged_pc,        \* "idle", "called", "returned"
    paged_call,      \* the call: the method, max_pages, and what the server
                     \* holds and answers
    paged_result,    \* what the call returned, and the pages it requested
    \* ---- one call of find_users_to_promote (SpecDiscovery)
    disc_pc,         \* "idle", "called", "returned"
    disc_call,       \* the arguments, the shuffle and what the server holds
    disc_result,     \* the list returned, and what the search looked at
    \* ---- main_async and stats_command around the run (Spec, SpecStats)
    config_manager,  \* whether the manager was given a ConfigManager
    search_request,  \* the call of find_users_to_promote by the run
    stats,           \* what get_statistics returned
    session,         \* GitHubClient.session, and the fetch gather left behind
    runs,            \* the runs of the promotion step so far (SpecRuns)
    \* ---- _process_follows and _process_unfollows (SpecStreams)
    streams          \* the two coroutines process_subscriptions gathers

(***************************************************************************)
(* Bounds of the model.                                                    *)
(***************************************************************************)
NumTasks == 11      \* concurrent callers of one client
NumUsers == 2       \* usernames other than the managed account
Today == 10         \* the day of the run
count_promotion_users == 1   \* Config.count_promotion_users of the run
TicksPerSecond == 2 \* the resolution of the clock
MaxBatch == 3       \* usernames in one batch
MaxFullPages == 2   \* full pages the server holds for one list
MaxServed == 2      \* followers the sampled pages of one seed hold
NumStrangers == 1   \* usernames that neither follow nor are followed
MaxTargets == 7     \* usernames the two streams of a run work on
MaxPagesArg == 3    \* the largest max_pages a call passes
MaxRuns == 3        \* successive runs of the promotion step

(***************************************************************************)
(* Program constants.                                                      *)
(***************************************************************************)
max_retries == 3
initial_retry_delay == 1
max_concurrent == 10
PER_PAGE == 100
days_period == 3

(***************************************************************************)
(* HTTP responses.  status 0 stands for a connection failure: aiohttp      *)
(* raises ClientError and there is no response object.  hdr says whether   *)
(* the response carries the X-RateLimit-* headers, remaining and reset     *)
(* are the header values (reset is an absolute time in seconds), json says *)
(* whether the content type is application/json.                           *)
(***************************************************************************)
StartTime == 3

\* the clock when a call starts, in ticks
StartTicks == StartTime * TicksPerSecond

Resp(status, hdr, remaining, reset, json) ==
    [status |-> status, hdr |-> hdr, remaining |-> remaining,
     reset |-> reset, json |-> json]

ConnError == Resp(0, FALSE, 0, 0, FALSE)

Ok200 == Resp(200, TRUE, 59, 8, TRUE)          \* a page of JSON
Ok204 == Resp(204, TRUE, 58, 8, FALSE)         \* a mutation that succeeded
TooMany == Resp(429, TRUE, 0, 8, TRUE)         \* rate limited, reset ahead
TooManyPast == Resp(429, TRUE, 0, 1, TRUE)     \* rate limited, reset past
TooManyBare == Resp(429, FALSE, 0, 0, TRUE)    \* rate limited, no headers
BadGateway == Resp(502, FALSE, 0, 0, FALSE)
Unavailable == Resp(503, FALSE, 0, 0, FALSE)
GatewayTimeout == Resp(504, FALSE, 0, 0, FALSE)
NotFound == Resp(404, TRUE, 57, 8, TRUE)
ServerError == Resp(500, FALSE, 0, 0, FALSE)
Forbidden == Resp(403, TRUE, 0, 8, TRUE)       \* refused, window used up

Responses ==
    { Ok200, Ok204, TooMany, TooManyPast, TooManyBare, BadGateway,
      Unavailable, GatewayTimeout, NotFound, ServerError, Forbidden,
      ConnError }

(***************************************************************************)
(* RateLimitInfo.  The client starts with rate_limit = None.               *)
(***************************************************************************)
None == [present |-> FALSE, limit |-> 0, remaining |-> 0, reset_time |-> 0]

RateLimitInfo(limit, remaining, reset_time) ==
    [present |-> TRUE, limit |-> limit, remaining |-> remaining,
     reset_time |-> reset_time]

Max(a, b) == IF a >= b THEN a ELSE b

is_exhausted(rl) == rl.remaining = 0

\* Python's int() of a float: the fraction is dropped, towards zero
Trunc(n, d) == IF n >= 0 THEN n \div d ELSE -((-n) \div d)

\* reset_time is a whole second (datetime.fromtimestamp of an int), the
\* clock t is in ticks; the difference is cut to whole seconds
seconds_until_reset(rl, t) ==
    Max(0, Trunc(rl.reset_time * TicksPerSecond - t, TicksPerSecond))

(***************************************************************************)
(* The pieces of one iteration of the retry loop of _make_request.         *)
(***************************************************************************)
\* the window after a response: replaced when the headers are there
\* a variant that keeps the window of a response only when it succeeded
update_rate_limit_on_success(rl, resp) ==
    IF resp.hdr /\ resp.status < 400
    THEN RateLimitInfo(60, resp.remaining, resp.reset) ELSE rl

update_rate_limit(rl, resp) ==
    IF resp.hdr THEN RateLimitInfo(60, resp.remaining, resp.reset) ELSE rl

\* the 429 branch is taken: status 429 and a window is known
rate_limited(resp, rl) == resp.status = 429 /\ rl.present

\* aiohttp's raise_for_status raises for every status of 400 and above
raises_for_status(status) == status >= 400

\* a variant that forgets the extra second
retry_wait_time_no_margin(rl, t) == seconds_until_reset(rl, t)

retry_wait_time(rl, t) == seconds_until_reset(rl, t) + 1

\* a variant that retries every error status
any_error_retried(status, att) == att < max_retries - 1

server_error_retried(status, att) ==
    status \in {502, 503, 504} /\ att < max_retries - 1

connection_error_retried(att) == att < max_retries - 1

\* a variant that forgets to double the delay
backoff_not_doubled(d) == d

backoff_after_server_error(d) == d * 2

backoff_after_connection_error(d) == d

response_body(resp) == IF resp.json THEN "json" ELSE "empty"

(***************************************************************************)
(* One iteration of `for attempt in range(max_retries)`: the request, the  *)
(* handling of its response, and the sleep before the next iteration.      *)
(* r holds the locals of the call together with the shared window and the  *)
(* clock.  pc "loop" means the loop goes on with the next attempt.         *)
(***************************************************************************)
Sleep(r, d) ==
    [r EXCEPT !.sleeps = Append(@, d), !.now = @ + d * TicksPerSecond,
              !.attempt = @ + 1]

request_iteration(r, resp) ==
    LET seen == [r EXCEPT !.responses = Append(@, resp)] IN
    IF resp = ConnError
    THEN IF connection_error_retried(r.attempt)
         THEN [Sleep(seen, r.retry_delay) EXCEPT
                  !.retry_delay = backoff_after_connection_error(@)]
         ELSE [seen EXCEPT !.pc = "raised", !.result = "ClientError"]
    ELSE
      LET rl == update_rate_limit(r.rate_limit, resp)
          got == [seen EXCEPT !.rate_limit = rl] IN
      IF rate_limited(resp, rl)
      THEN Sleep(got, retry_wait_time(rl, r.now))
      ELSE IF raises_for_status(resp.status)
      THEN IF server_error_retried(resp.status, r.attempt)
           THEN [Sleep(got, r.retry_delay) EXCEPT
                    !.retry_delay = backoff_after_server_error(@)]
           ELSE [got EXCEPT !.pc = "raised", !.result = "ClientResponseError"]
      ELSE [got EXCEPT !.pc = "returned", !.result = response_body(resp)]

\* the for loop is over without a return or a raise: the function ends and
\* Python returns None
loop_exhausted(r) == r.pc = "loop" /\ r.attempt >= max_retries

fall_through(r) == [r EXCEPT !.pc = "returned", !.result = "None"]

NewRequest(rl, t) ==
    [pc |-> "loop", attempt |-> 0, retry_delay |-> initial_retry_delay,
     sleeps |-> <<>>, responses |-> <<>>, result |-> "pending",
     rate_limit |-> rl, now |-> t]

\* the whole call, for a server that answers with the responses of s
RECURSIVE run_request(_, _)
run_request(r, s) ==
    IF r.pc # "loop" THEN r
    ELSE IF loop_exhausted(r) THEN fall_through(r)
    ELSE run_request(request_iteration(r, Head(s)), Tail(s))

make_request(s, rl, t) == run_request(NewRequest(rl, t), s)

(***************************************************************************)
(* follow_user / unfollow_user: True when _make_request came back without  *)
(* an exception, False when it raised.                                     *)
(***************************************************************************)
mutation_result(r) == IF r.pc = "raised" THEN FALSE ELSE TRUE

follow_user(s, rl, t) == mutation_result(make_request(s, rl, t))

unfollow_user(s, rl, t) == mutation_result(make_request(s, rl, t))

(***************************************************************************)
(* Usernames.  UserNames lists the names the model draws from in           *)
(* lexicographic order, so that the position of a name is its rank under   *)
(* Python's sorted().  config_username is the managed account.             *)
(***************************************************************************)
UserNames == << "a", "b", "d", "e", "f", "g", "h", "i", "j" >>

Users == { UserNames[i] : i \in 1..NumUsers }

config_username == "me"

\* every name of the model, in lexicographic order
AllNames == UserNames \o << config_username >>

Rank(u) == CHOOSE i \in 1..Len(AllNames) : AllNames[i] = u

RECURSIVE sorted(_)
sorted(S) ==
    IF S = {} THEN <<>>
    ELSE LET first == CHOOSE u \in S : \A v \in S : Rank(u) <= Rank(v)
         IN  << first >> \o sorted(S \ {first})

SeqToSet(s) == { s[i] : i \in 1..Len(s) }

(***************************************************************************)
(* get_followers / get_following: the page loop.  items is the list the    *)
(* server holds, scripts[p] the responses the server gives to the request  *)
(* of page p, max_pages = 0 stands for max_pages=None.  The result is the  *)
(* list returned, or raised = TRUE when a page request raised; log holds   *)
(* for every request made the page it asked for and how its _make_request  *)
(* call ended.                                                             *)
(***************************************************************************)
Min(a, b) == IF a <= b THEN a ELSE b

ServerPage(items, page) ==
    SubSeq(items, (page - 1) * PER_PAGE + 1, Min(page * PER_PAGE, Len(items)))

\* how a _make_request call ended, as its caller sees it
outcome(r) == IF r.pc = "raised" THEN "raised" ELSE r.result

\* `if not data`: None, {} and [] are all falsy
data_is_empty(r, page_items) == r.result # "json" \/ page_items = <<>>

\* a variant that allows one page more
page_limit_off_by_one(max_pages, page) ==
    max_pages # 0 /\ page > max_pages + 1

\* `if max_pages and page > max_pages`: None and 0 both mean no limit
page_limit_reached(max_pages, page) == max_pages # 0 /\ page > max_pages

\* a variant that takes a full page for the last one
short_page_inclusive(data) == Len(data) <= PER_PAGE

\* `if len(data) < self.PER_PAGE`
short_page(data) == Len(data) < PER_PAGE

RECURSIVE page_loop(_, _, _, _, _, _)
page_loop(items, scripts, max_pages, page, acc, log) ==
    IF page_limit_reached(max_pages, page)
    THEN [raised |-> FALSE, list |-> acc, log |-> log]
    ELSE
      LET r == make_request(scripts[page], None, StartTicks)
          data == ServerPage(items, page)
          log2 == Append(log, [page |-> page, outcome |-> outcome(r)])
      IN  IF r.pc = "raised"
          THEN [raised |-> TRUE, list |-> <<>>, log |-> log2]
          ELSE IF data_is_empty(r, data)
          THEN [raised |-> FALSE, list |-> acc, log |-> log2]
          ELSE IF short_page(data)
          THEN [raised |-> FALSE, list |-> acc \o data, log |-> log2]
          ELSE page_loop(items, scripts, max_pages, page + 1,
                         acc \o data, log2)

get_followers(items, scripts, max_pages) ==
    page_loop(items, scripts, max_pages, 1, <<>>, <<>>)

get_following(items, scripts, max_pages) ==
    page_loop(items, scripts, max_pages, 1, <<>>, <<>>)

(***************************************************************************)
(* SubscriptionState: the delta.  st is a record with the fields of the    *)
(* dataclass; promoted_users is a sequence of PromotedUser records.        *)
(***************************************************************************)
PromotedUser(username, promotion_date) ==
    [username |-> username, promotion_date |-> promotion_date]

Usernames(promoted) == { promoted[i].username : i \in 1..Len(promoted) }

\* a variant that forgets the ban list
get_users_to_follow_unbanned(st) == st.followers \ st.following

\* a variant with the two operands swapped
get_users_to_follow_swapped(st) ==
    (st.following \ st.followers) \ st.ban_list_followers

get_users_to_follow(st) ==
    (st.followers \ st.following) \ st.ban_list_followers

\* a variant that forgets the followers
get_users_to_unfollow_all(st) ==
    (st.following \ Usernames(st.promoted_users)) \ st.ban_list_following

get_users_to_unfollow(st) ==
    LET active_promoted == Usernames(st.promoted_users)
    IN  ((st.following \ st.followers) \ active_promoted)
            \ st.ban_list_following

(***************************************************************************)
(* The promoted-users file and the promotion step.  Dates are whole days;  *)
(* the file keeps the date only, and delta.days is the difference of the   *)
(* day numbers.                                                            *)
(***************************************************************************)
\* a variant that expires an entry on the last day of its period
is_expired_inclusive(u, days, today) == (today - u.promotion_date) >= days

is_expired(u, days, today) == (today - u.promotion_date) > days

\* a read error inside the try block is logged and gives []
load_promoted_users(stored, readable) == IF readable THEN stored ELSE <<>>

\* a variant that opens the file for appending
save_promoted_users_appended(stored, promoted) == stored \o promoted

save_promoted_users(stored, promoted) == promoted

\* a variant that writes back everything it loaded
check_and_update_saves_all(stored, readable) ==
    LET promoted == load_promoted_users(stored, readable)
        Expired(u) == is_expired(u, days_period, Today)
        Active(u) == ~is_expired(u, days_period, Today)
    IN  [active |-> Usernames(SelectSeq(promoted, Active)),
         expired |-> Usernames(SelectSeq(promoted, Expired)),
         file |-> save_promoted_users(stored, promoted)]

\* check_and_update_promoted_users: (active, expired) and the file rewritten
check_and_update_promoted_users(stored, readable) ==
    LET promoted == load_promoted_users(stored, readable)
        Expired(u) == is_expired(u, days_period, Today)
        Active(u) == ~is_expired(u, days_period, Today)
        active_promoted == SelectSeq(promoted, Active)
    IN  [active |-> Usernames(active_promoted),
         expired |-> Usernames(SelectSeq(promoted, Expired)),
         file |-> save_promoted_users(stored, active_promoted)]

(***************************************************************************)
(* find_users_to_promote.  `order` is followers_list after random.shuffle; *)
(* served[u] is what the server would answer to a fetch of the followers   *)
(* of u on the sampled pages: failed (the fetch raises) or a list.  The    *)
(* state of the search is a record: promoted and next_level are the lists  *)
(* of the code, visited its set, examined the followers the collection     *)
(* loop has looked at, requested the users whose followers were fetched.   *)
(***************************************************************************)
seeds_count == 5

discovery_batch_size == 3

next_level_limit == 50

\* the keyword parameters of get_followers_batch(self, usernames, max_pages)
get_followers_batch_keywords == {"usernames", "max_pages"}

\* find_users_to_promote calls get_followers_batch(batch, pages_map=...):
\* a keyword the function does not take makes the call raise TypeError
\* before any fetch is issued
get_followers_batch_raises == "pages_map" \notin get_followers_batch_keywords

\* gather(return_exceptions=True): the list of a seed whose fetch raised is
\* [], the others keep theirs; the result is in the order of usernames
get_followers_batch(usernames, served) ==
    [ i \in 1..Len(usernames) |->
        IF served[usernames[i]].failed THEN <<>>
        ELSE served[usernames[i]].list ]

\* for follower in followers: ...
RECURSIVE scan_followers(_, _, _)
scan_followers(flist, st, c) ==
    IF flist = <<>> THEN st
    ELSE LET follower == Head(flist)
             fresh == /\ follower \notin c.excluded
                      /\ follower \notin SeqToSet(st.promoted)
             promoted2 == IF fresh THEN Append(st.promoted, follower)
                          ELSE st.promoted
             seen == [st EXCEPT !.promoted = promoted2,
                                !.examined = @ \cup {follower}]
         IN  IF fresh /\ Len(promoted2) >= c.count THEN seen
             ELSE scan_followers(
                    Tail(flist),
                    IF c.depth + 1 < c.max_depth
                    THEN [seen EXCEPT !.next_level = Append(@, follower)]
                    ELSE seen,
                    c)

\* for username, followers in followers_dict.items(): ...
RECURSIVE scan_followers_dict(_, _, _)
scan_followers_dict(lists, st, c) ==
    IF lists = <<>> THEN st
    ELSE LET st2 == scan_followers(Head(lists), st, c)
         IN  IF Len(st2.promoted) >= c.count THEN st2
             ELSE scan_followers_dict(Tail(lists), st2, c)

\* the try block: the call, then the collection loop; the except branch
\* logs a warning and leaves the lists as they are
fetch_and_collect(batch, st, c) ==
    IF get_followers_batch_raises THEN st
    ELSE scan_followers_dict(
           get_followers_batch(batch, c.served),
           [st EXCEPT !.requested = @ \cup SeqToSet(batch)], c)

\* for i in range(0, len(queue), batch_size): ...
RECURSIVE scan_queue(_, _, _, _)
scan_queue(queue, i, st, c) ==
    IF i > Len(queue) THEN st
    ELSE LET NotVisited(u) == u \notin st.visited
             batch == SelectSeq(
                        SubSeq(queue, i,
                               Min(i + discovery_batch_size - 1, Len(queue))),
                        NotVisited)
         IN  IF batch = <<>>
             THEN scan_queue(queue, i + discovery_batch_size, st, c)
             ELSE LET st2 == fetch_and_collect(
                               batch,
                               [st EXCEPT !.visited = @ \cup SeqToSet(batch),
                                          !.batches = @ + 1],
                               c)
                  IN  IF Len(st2.promoted) >= c.count THEN st2
                      ELSE scan_queue(queue, i + discovery_batch_size, st2, c)

\* while queue and len(promoted) < count and current_depth < max_depth: ...
RECURSIVE scan_levels(_, _, _)
scan_levels(queue, st, c) ==
    IF queue = <<>> \/ Len(st.promoted) >= c.count \/ c.depth >= c.max_depth
    THEN [st EXCEPT !.queue = queue]
    ELSE LET st2 == scan_queue(queue, 1,
                               [st EXCEPT !.next_level = <<>>,
                                          !.levels = @ + 1], c)
         IN  scan_levels(
               SubSeq(st2.next_level, 1,
                      Min(next_level_limit, Len(st2.next_level))),
               st2, [c EXCEPT !.depth = @ + 1])

\* levels counts the iterations of the while loop; queue is the queue the
\* loop ended on
NoSearch ==
    [promoted |-> <<>>, next_level |-> <<>>, visited |-> {},
     examined |-> {}, requested |-> {}, batches |-> 0, levels |-> 0,
     queue |-> <<>>]

\* a variant that seeds the search from the account itself when it has no
\* followers
search_seeded_from_self(current_followers, ban_list, count, max_depth, order, served) ==
    scan_levels(
      IF current_followers = {} THEN << config_username >>
      ELSE SubSeq(order, 1, Min(seeds_count, Len(order))),
      NoSearch,
      [excluded |-> ban_list \cup current_followers \cup {config_username},
       count |-> count, max_depth |-> max_depth, depth |-> 0,
       served |-> served])

search(current_followers, ban_list, count, max_depth, order, served) ==
    IF current_followers = {} THEN NoSearch
    ELSE scan_levels(
           SubSeq(order, 1, Min(seeds_count, Len(order))),
           NoSearch,
           [excluded |-> ban_list \cup current_followers
                           \cup {config_username},
            count |-> count, max_depth |-> max_depth, depth |-> 0,
            served |-> served])

\* a variant that returns the seeds instead of the users it found
find_users_to_promote_seeds(current_followers, ban_list, count, max_depth, order, served) ==
    order

find_users_to_promote(current_followers, ban_list, count, max_depth, order, served) ==
    LET promoted ==
            search(current_followers, ban_list, count, max_depth,
                   order, served).promoted
    IN  SubSeq(promoted, 1, Min(count, Len(promoted)))

RECURSIVE AppendNew(_, _, _)
AppendNew(existing, usernames, today) ==
    IF usernames = <<>> THEN existing
    ELSE AppendNew(
           IF Head(usernames) \in Usernames(existing) THEN existing
           ELSE Append(existing, PromotedUser(Head(usernames), today)),
           Tail(usernames), today)

add_promoted_users(stored, usernames, readable) ==
    IF usernames = <<>> THEN stored
    ELSE save_promoted_users(
           stored,
           AppendNew(load_promoted_users(stored, readable), usernames, Today))

\* a server on which nobody has a follower
NothingServed ==
    [ u \in SeqToSet(AllNames) |-> [failed |-> FALSE, list |-> <<>>] ]

\* a variant that asks for one more than is missing
needed_count_one_more(active) ==
    count_promotion_users - Cardinality(active) + 1

needed_count(active) == count_promotion_users - Cardinality(active)

\* a variant that does not add the active promoted users to the followers
active_not_added(current, active) == current

followers_with_active(current, active) == current \cup active

following_without_expired(current, expired) == current \ expired

\* process_promotion: the updated sets, the file, and what the check found.
\* The order of the shuffle and the followers of the seeds are inputs of
\* the search.
process_promotion_on(cur_followers, cur_following, ban_list, stored, readable, order, served) ==
    LET checked == check_and_update_promoted_users(stored, readable)
        updated_followers ==
            followers_with_active(cur_followers, checked.active)
        updated_following ==
            following_without_expired(cur_following, checked.expired)
        needed == needed_count(checked.active)
        new_promoted ==
            IF needed > 0
            THEN find_users_to_promote(cur_followers, ban_list, needed, 1,
                                       order, served)
            ELSE <<>>
    IN  [followers |-> updated_followers \cup SeqToSet(new_promoted),
         following |-> updated_following,
         file |-> add_promoted_users(checked.file, new_promoted, readable),
         active |-> checked.active,
         expired |-> checked.expired,
         needed |-> needed,
         new_promoted |-> new_promoted]

\* process_promotion in a run: the search finds nothing on any server
process_promotion(cur_followers, cur_following, ban_list, stored, readable) ==
    process_promotion_on(cur_followers, cur_following, ban_list, stored,
                         readable, sorted(cur_followers), NothingServed)

(***************************************************************************)
(* The semaphore of the client.                                            *)
(***************************************************************************)
Tasks == 1..NumTasks

\* a variant whose gate never closes
semaphore_never_locked(v) == FALSE

semaphore_locked(v) == v = 0

InFlight == { t \in Tasks : task_pc[t] = "holding" }

\* the traffic a caller belongs to: the two mutation streams, the two list
\* fetches of fetch_current_state and the fetches of the promotion search
TaskKind(t) ==
    CASE t % 5 = 0 -> "follow"
      [] t % 5 = 1 -> "unfollow"
      [] t % 5 = 2 -> "get_followers"
      [] t % 5 = 3 -> "get_following"
      [] OTHER -> "promotion"

runVars == << run_pc, srv_followers, srv_following, ban_lists, promotion,
              followers, following, ban_list_followers, ban_list_following,
              promoted_users, file, file_at_start, file_readable, fetch_log,
              users_to_follow, users_to_unfollow, follow_calls,
              unfollow_calls >>

batchVars == << batch_pc, batch_kind, batch_usernames, batch_tasks,
                batch_now, batch_results >>

pagedVars == << paged_pc, paged_call, paged_result >>

discVars == << disc_pc, disc_call, disc_result >>

mainVars == << config_manager, search_request, stats, session, runs >>

\* the variables of the specifications that follow the run
restVars == << discVars, mainVars, streams >>

vars == << caller, req_pc, attempt, retry_delay, sleeps, responses,
           result, rate_limit, now, call_result, task_pc, sem_value,
           runVars, batchVars, pagedVars, discVars, mainVars, streams >>

reqVars == << caller, req_pc, attempt, retry_delay, sleeps, responses,
              result, rate_limit, now, call_result >>

gateVars == << task_pc, sem_value >>

\* a SubscriptionManager that has not been run
NoBanLists ==
    [never_follow |-> {}, never_unfollow |-> {}, ignore_completely |-> {}]

NoFetchLog == [followers |-> <<>>, following |-> <<>>]

\* the two streams of process_subscriptions
StreamKinds == {"follow", "unfollow"}

\* _process_follows / _process_unfollows called with the list `targets`
NewStream(targets) ==
    [pc |-> "called", targets |-> targets, users |-> <<>>, i |-> 0,
     calls |-> <<>>, results |-> <<>>]

StreamsIdle == streams = [k \in StreamKinds |-> NewStream(<<>>)]

\* process_promotion has not called find_users_to_promote
NoSearchRequest == [invoked |-> FALSE, count |-> 0, found |-> <<>>]

\* get_statistics has not returned
NoStats ==
    [returned |-> FALSE, after_run |-> FALSE, followers |-> 0,
     following |-> 0, banned_followers |-> 0, banned_following |-> 0,
     promoted_active |-> 0, promoted_expired |-> 0]

\* GitHubClient.__init__: self.session = None
NoSession == [opened |-> 0, closed |-> 0, is_open |-> FALSE, orphan |-> "none"]

NoRunYet ==
    /\ followers = {}
    /\ following = {}
    /\ ban_list_followers = {}
    /\ ban_list_following = {}
    /\ promoted_users = <<>>
    /\ file_readable = TRUE
    /\ fetch_log = NoFetchLog
    /\ users_to_follow = <<>>
    /\ users_to_unfollow = <<>>
    /\ follow_calls = <<>>
    /\ unfollow_calls = <<>>
    /\ config_manager = TRUE
    /\ search_request = NoSearchRequest
    /\ stats = NoStats
    /\ session = NoSession
    /\ runs = 0

FreshState ==
    /\ run_pc = "start"
    /\ NoRunYet

RunIdle ==
    /\ FreshState
    /\ srv_followers = {}
    /\ srv_following = {}
    /\ ban_lists = NoBanLists
    /\ promotion = FALSE
    /\ file = <<>>
    /\ file_at_start = <<>>

\* no search is under way
NoDiscCall ==
    [current_followers |-> {}, ban_list |-> {}, count |-> 0, max_depth |-> 0,
     order |-> <<>>, served |-> <<>>]

NoDiscResult ==
    [list |-> <<>>, examined |-> {}, requested |-> {}, batches |-> 0,
     levels |-> 0, queue |-> <<>>, promoted |-> 0]

DiscIdle ==
    /\ disc_pc = "idle"
    /\ disc_call = NoDiscCall
    /\ disc_result = NoDiscResult

\* no list call is under way
NoPagedCall == [kind |-> "none", count |-> 0, max_pages |-> 0, scripts |-> <<>>]

NoPagedResult == [raised |-> FALSE, list |-> <<>>, log |-> <<>>]

PagedIdle ==
    /\ paged_pc = "idle"
    /\ paged_call = NoPagedCall
    /\ paged_result = NoPagedResult

\* no batch call is under way
BatchIdle ==
    /\ batch_pc = "idle"
    /\ batch_kind = "follow"
    /\ batch_usernames = <<>>
    /\ batch_tasks = <<>>
    /\ batch_now = 0
    /\ batch_results = <<>>

(***************************************************************************)
(* SpecRequest: one call of _make_request, step by step.                   *)
(***************************************************************************)
Callers == {"follow_user", "unfollow_user", "get_followers"}

GateIdle ==
    /\ task_pc = [t \in Tasks |-> "idle"]
    /\ sem_value = max_concurrent

RequestIdle ==
    /\ caller = "none"
    /\ req_pc = "idle"
    /\ attempt = 0
    /\ retry_delay = initial_retry_delay
    /\ sleeps = <<>>
    /\ responses = <<>>
    /\ result = "pending"
    /\ rate_limit = None
    /\ now = StartTicks
    /\ call_result = "pending"

InitRequest ==
    /\ caller \in Callers
    /\ req_pc = "idle"
    /\ attempt = 0
    /\ retry_delay = initial_retry_delay
    /\ sleeps = <<>>
    /\ responses = <<>>
    /\ result = "pending"
    /\ rate_limit \in {None, RateLimitInfo(60, 10, 8)}
    /\ now \in StartTicks..(StartTicks + TicksPerSecond - 1)
    /\ call_result = "pending"
    /\ GateIdle
    /\ BatchIdle
    /\ PagedIdle
    /\ DiscIdle
    /\ StreamsIdle
    /\ RunIdle

Locals ==
    [pc |-> req_pc, attempt |-> attempt, retry_delay |-> retry_delay,
     sleeps |-> sleeps, responses |-> responses, result |-> result,
     rate_limit |-> rate_limit, now |-> now]

SetLocals(r) ==
    /\ req_pc' = r.pc
    /\ attempt' = r.attempt
    /\ retry_delay' = r.retry_delay
    /\ sleeps' = r.sleeps
    /\ responses' = r.responses
    /\ result' = r.result
    /\ rate_limit' = r.rate_limit
    /\ now' = r.now

\* a variant that gives the permit back only when the call returns
permit_after_return(r, v) == IF r.pc = "returned" THEN v + 1 ELSE v

\* the end of `async with self.semaphore`: the permit is given back when
\* the block is left, by a return, by an exception or by its end
permit_after(r, v) == IF r.pc \in {"returned", "raised"} THEN v + 1 ELSE v

\* `async with self.semaphore`, then the two assignments before the loop
EnterRequest ==
    /\ req_pc = "idle"
    /\ ~semaphore_locked(sem_value)
    /\ sem_value' = sem_value - 1
    /\ SetLocals(NewRequest(rate_limit, now))
    /\ UNCHANGED << caller, call_result, task_pc, runVars, batchVars,
                    pagedVars, restVars >>

\* one iteration of the for loop; the server answers with any response
Attempt ==
    /\ req_pc = "loop"
    /\ ~loop_exhausted(Locals)
    /\ \E resp \in Responses :
         /\ SetLocals(request_iteration(Locals, resp))
         /\ sem_value' = permit_after(request_iteration(Locals, resp),
                                      sem_value)
    /\ UNCHANGED << caller, call_result, task_pc, runVars, batchVars,
                    pagedVars, restVars >>

\* the loop ran out of iterations
FallThrough ==
    /\ loop_exhausted(Locals)
    /\ SetLocals(fall_through(Locals))
    /\ sem_value' = permit_after(fall_through(Locals), sem_value)
    /\ UNCHANGED << caller, call_result, task_pc, runVars, batchVars,
                    pagedVars, restVars >>

\* follow_user / unfollow_user turn the outcome into a boolean
MutationReturns ==
    /\ caller \in {"follow_user", "unfollow_user"}
    /\ req_pc \in {"returned", "raised"}
    /\ call_result = "pending"
    /\ call_result' = IF mutation_result(Locals) THEN "True" ELSE "False"
    /\ UNCHANGED << caller, req_pc, attempt, retry_delay, sleeps,
                    responses, result, rate_limit, now, gateVars, runVars,
                    batchVars, pagedVars, restVars >>

NextRequest == EnterRequest \/ Attempt \/ FallThrough \/ MutationReturns

SpecRequest == InitRequest /\ [][NextRequest]_vars

\* the event loop runs the coroutine on: every request is answered or
\* fails, and every sleep ends
SpecRequestFair == SpecRequest /\ WF_vars(NextRequest)

(***************************************************************************)
(* SpecGate: NumTasks concurrent calls of _make_request of one client.     *)
(* A task holds a permit from `async with self.semaphore` until the call   *)
(* returns or raises; its HTTP attempts and its sleeps happen while it     *)
(* holds the permit.                                                       *)
(***************************************************************************)
InitGate ==
    /\ RequestIdle
    /\ GateIdle
    /\ BatchIdle
    /\ PagedIdle
    /\ DiscIdle
    /\ StreamsIdle
    /\ RunIdle

\* Semaphore.acquire: taken at once when a permit is free, else the task waits
Acquire(t) ==
    /\ task_pc[t] = "idle"
    /\ ~semaphore_locked(sem_value)
    /\ sem_value' = sem_value - 1
    /\ task_pc' = [task_pc EXCEPT ![t] = "holding"]
    /\ UNCHANGED << reqVars, runVars, batchVars, pagedVars, restVars >>

\* the call returns or raises: the `async with` block releases the permit
Release(t) ==
    /\ task_pc[t] = "holding"
    /\ sem_value' = sem_value + 1
    /\ task_pc' = [task_pc EXCEPT ![t] = "done"]
    /\ UNCHANGED << reqVars, runVars, batchVars, pagedVars, restVars >>

NextGate == \E t \in Tasks : Acquire(t) \/ Release(t)

SpecGate == InitGate /\ [][NextGate]_vars

(***************************************************************************)
(* Spec: one run of SubscriptionManager.run, for every server state, ban   *)
(* lists and promoted-users file the bounds allow.                         *)
(***************************************************************************)
\* the dates a stored entry may carry: one day past the retention period,
\* and exactly at it
StoredDates == { Today - days_period - 1, Today - days_period }

\* the usernames the ban lists and the promoted-users file of the model name
ListedUsers == { UserNames[1], UserNames[2] }

\* the files the program can have written: one entry per username
FileOf(dates) ==
    LET names == sorted(DOMAIN dates)
    IN  [i \in 1..Len(names) |-> PromotedUser(names[i], dates[names[i]])]

\* a file that names the managed account itself, as an active entry
OwnFile == << PromotedUser(config_username, Today - days_period) >>

Files ==
    UNION { { FileOf(d) : d \in [S -> StoredDates] } :
              S \in SUBSET ListedUsers }
      \cup { OwnFile }

get_combined_ban_list_followers(lists) ==
    lists.never_follow \cup lists.ignore_completely

\* a variant that returns the other combined list
get_combined_ban_list_following_swapped(lists) ==
    lists.never_follow \cup lists.ignore_completely

get_combined_ban_list_following(lists) == lists.never_unfollow

\* check_internet_connection: what the GET of https://github.com gave, a
\* status or 0 for an exception
ConnectionAnswers == { 0, 200, 301, 302, 404, 503 }

check_internet_connection(answer) == answer \in { 200, 301, 302 }

\* the configuration files main_async may find
GoodConfig ==
    [exists |-> TRUE, parses |-> TRUE, username |-> config_username,
     token |-> "token", days_period |-> days_period,
     count_promotion_users |-> count_promotion_users]

ConfigFiles ==
    { GoodConfig,
      [GoodConfig EXCEPT !.exists = FALSE],
      [GoodConfig EXCEPT !.parses = FALSE],
      [GoodConfig EXCEPT !.username = ""],
      [GoodConfig EXCEPT !.token = ""],
      [GoodConfig EXCEPT !.days_period = 0],
      [GoodConfig EXCEPT !.count_promotion_users = -1] }

validate_config(config) ==
    /\ config.username # ""
    /\ config.token # ""
    /\ config.days_period >= 1
    /\ config.count_promotion_users >= 0

\* ConfigManager.load: the exception it raises, or "loaded"
load(f) ==
    IF ~f.exists THEN "FileNotFoundError"
    ELSE IF ~f.parses THEN "YAMLError"
    ELSE IF ~validate_config(f) THEN "ValueError"
    ELSE "loaded"

\* a variant that loads nothing and does not ask for the ConfigManager
load_ban_lists_unchecked(has_config_manager, lists) ==
    [raised |-> FALSE, ban_list_followers |-> {}, ban_list_following |-> {}]

\* load_ban_lists: raises ValueError without a ConfigManager
load_ban_lists(has_config_manager, lists) ==
    IF ~has_config_manager
    THEN [raised |-> TRUE, ban_list_followers |-> {},
          ban_list_following |-> {}]
    ELSE [raised |-> FALSE,
          ban_list_followers |-> get_combined_ban_list_followers(lists),
          ban_list_following |-> get_combined_ban_list_following(lists)]

\* the responses a list request of the run may meet
FetchScripts ==
    { << Ok200 >>,
      << Unavailable, Ok200 >>,
      << TooMany, TooMany, TooMany >>,
      << Unavailable, Unavailable, Unavailable >>,
      << NotFound >> }

\* the responses a follow / unfollow request of the run may meet
MutationScripts ==
    { << Ok204 >>, << NotFound >>, << TooManyPast, TooManyPast, TooManyPast >> }

\* the ban lists of config.yml
BanLists ==
    [never_follow : SUBSET ListedUsers,
     never_unfollow : SUBSET ListedUsers,
     ignore_completely : SUBSET {UserNames[1]}]

\* what a session meets: the server, config.yml and promoted_users.txt
\* GitHubClient.__aenter__, reached through SubscriptionManager.__aenter__:
\* a ClientSession is created and kept in self.session
client_aenter(s) == [s EXCEPT !.opened = @ + 1, !.is_open = TRUE]

\* a variant of __aexit__ that leaves the session open
client_aexit_keeps_open(s) == s

\* GitHubClient.__aexit__, reached through SubscriptionManager.__aexit__:
\* `if self.session: await self.session.close()`
client_aexit(s) ==
    IF s.opened > 0 THEN [s EXCEPT !.closed = @ + 1, !.is_open = FALSE] ELSE s

Session(lists, files) ==
    /\ RequestIdle
    /\ GateIdle
    /\ BatchIdle
    /\ PagedIdle
    /\ DiscIdle
    /\ StreamsIdle
    /\ NoRunYet
    /\ srv_followers \in SUBSET Users
    /\ srv_following \in SUBSET Users
    /\ ban_lists \in lists
    /\ promotion \in BOOLEAN
    /\ file \in (IF promotion THEN files ELSE { <<>> })
    /\ file_at_start = file

Init ==
    /\ run_pc = "main"
    /\ Session(BanLists, Files)

\* main_async: the connectivity check; without a connection it returns 1
CheckInternetConnection ==
    /\ run_pc = "main"
    /\ \E answer \in ConnectionAnswers :
         run_pc' = IF check_internet_connection(answer) THEN "connected"
                   ELSE "no_internet"
    /\ UNCHANGED << srv_followers, srv_following, ban_lists, promotion,
                    followers, following, ban_list_followers,
                    ban_list_following, promoted_users, file, file_at_start,
                    file_readable, fetch_log, users_to_follow,
                    users_to_unfollow, follow_calls, unfollow_calls,
                    reqVars, gateVars,
                    batchVars, pagedVars, discVars, streams,
                    mainVars >>

\* main_async: config_manager.load(); an exception makes it return 1
LoadConfig ==
    /\ run_pc = "connected"
    /\ \E f \in ConfigFiles :
         run_pc' = IF load(f) = "loaded" THEN "config_loaded"
                   ELSE "config_error"
    /\ UNCHANGED << srv_followers, srv_following, ban_lists, promotion,
                    followers, following, ban_list_followers,
                    ban_list_following, promoted_users, file, file_at_start,
                    file_readable, fetch_log, users_to_follow,
                    users_to_unfollow, follow_calls, unfollow_calls,
                    reqVars, gateVars,
                    batchVars, pagedVars, discVars, streams,
                    mainVars >>

\* `async with SubscriptionManager(config, config_manager) as manager`:
\* main_async passes its ConfigManager; the parameter is optional and
\* defaults to None; __aenter__ opens the session of the client
CreateManager ==
    /\ run_pc = "config_loaded"
    /\ config_manager' \in BOOLEAN
    /\ session' = client_aenter(session)
    /\ run_pc' = "start"
    /\ UNCHANGED << srv_followers, srv_following, ban_lists, promotion,
                    followers, following, ban_list_followers,
                    ban_list_following, promoted_users, file, file_at_start,
                    file_readable, fetch_log, users_to_follow,
                    users_to_unfollow, follow_calls, unfollow_calls,
                    reqVars, gateVars,
                    batchVars, pagedVars, discVars, streams,
                    search_request, stats, runs >>

\* run: load_ban_lists; its ValueError is logged by run and raised again,
\* and main_async returns 1
LoadBanLists ==
    /\ run_pc = "start"
    /\ LET loaded == load_ban_lists(config_manager, ban_lists)
       IN  IF loaded.raised
           THEN /\ run_pc' = "no_config_manager"
                /\ UNCHANGED << ban_list_followers, ban_list_following >>
           ELSE /\ run_pc' = "ban_lists_loaded"
                /\ ban_list_followers' = loaded.ban_list_followers
                /\ ban_list_following' = loaded.ban_list_following
    /\ UNCHANGED << srv_followers, srv_following, ban_lists, promotion,
                    followers, following, promoted_users, file, file_at_start,
                    file_readable, fetch_log, users_to_follow,
                    users_to_unfollow, follow_calls, unfollow_calls,
                    reqVars, gateVars,
                    batchVars, pagedVars, discVars, streams,
                    mainVars >>

\* a variant of run that does not wait for load_ban_lists
phase_before_fetch_start == "start"

\* run: await self.load_ban_lists() stands before
\* await self.fetch_current_state()
phase_before_fetch == "ban_lists_loaded"

\* fetch_current_state: both lists are fetched; an exception of either
\* fetch leaves gather, run logs it and raises it again
FetchCurrentState ==
    /\ run_pc = phase_before_fetch
    /\ \E s1 \in FetchScripts, s2 \in FetchScripts :
         LET got_followers ==
                 get_followers(sorted(srv_followers), << s1 >>, 0)
             got_following ==
                 get_following(sorted(srv_following), << s2 >>, 0)
         IN  /\ fetch_log' = [followers |-> got_followers.log,
                              following |-> got_following.log]
             /\ IF got_followers.raised \/ got_following.raised
                THEN /\ run_pc' = "failed"
                     /\ UNCHANGED << followers, following >>
                ELSE /\ run_pc' = "fetched"
                     /\ followers' =
                          SeqToSet(got_followers.list) \ ban_list_followers
                     /\ following' =
                          SeqToSet(got_following.list) \ ban_list_following
    /\ UNCHANGED << srv_followers, srv_following, ban_lists, promotion,
                    ban_list_followers, ban_list_following, promoted_users,
                    file, file_at_start, file_readable, users_to_follow,
                    users_to_unfollow, follow_calls, unfollow_calls,
                    reqVars, gateVars,
                    batchVars, pagedVars, discVars, streams,
                    mainVars >>

State(f, g) ==
    [followers |-> f, following |-> g,
     ban_list_followers |-> ban_list_followers,
     ban_list_following |-> ban_list_following,
     promoted_users |-> promoted_users]

\* process_subscriptions up to its gather: the promotion step when it is
\* enabled, then the two lists, each sorted by its stream
ProcessSubscriptions ==
    /\ run_pc = "fetched"
    /\ \E readable \in BOOLEAN :
         LET p == process_promotion(followers, following, ban_list_followers,
                                    file, readable)
             f == IF promotion THEN p.followers ELSE followers
             g == IF promotion THEN p.following ELSE following
         IN  /\ promotion \/ readable
             /\ file_readable' = readable
             /\ followers' = f
             /\ following' = g
             /\ file' = IF promotion THEN p.file ELSE file
             /\ users_to_follow' = sorted(get_users_to_follow(State(f, g)))
             /\ users_to_unfollow' = sorted(get_users_to_unfollow(State(f, g)))
             /\ search_request' =
                  IF promotion /\ p.needed > 0
                  THEN [invoked |-> TRUE, count |-> p.needed,
                        found |-> p.new_promoted]
                  ELSE NoSearchRequest
    /\ run_pc' = "mutating"
    /\ UNCHANGED << srv_followers, srv_following, ban_lists, promotion,
                    ban_list_followers, ban_list_following, promoted_users,
                    file_at_start, fetch_log, follow_calls, unfollow_calls,
                    reqVars, gateVars,
                    batchVars, pagedVars, discVars, streams,
                    config_manager, stats, session, runs >>

Call(username, ok) == [username |-> username, ok |-> ok]

\* the follow stream issues its next call
FollowNext ==
    /\ run_pc = "mutating"
    /\ Len(follow_calls) < Len(users_to_follow)
    /\ \E s \in MutationScripts :
         follow_calls' =
            Append(follow_calls,
                   Call(users_to_follow[Len(follow_calls) + 1],
                        follow_user(s, None, StartTicks)))
    /\ UNCHANGED << run_pc, srv_followers, srv_following, ban_lists,
                    promotion, followers, following, ban_list_followers,
                    ban_list_following, promoted_users, file, file_at_start,
                    file_readable, fetch_log, users_to_follow,
                    users_to_unfollow, unfollow_calls, reqVars, gateVars,
                    batchVars, pagedVars, discVars, streams,
                    mainVars >>

\* the unfollow stream issues its next call
UnfollowNext ==
    /\ run_pc = "mutating"
    /\ Len(unfollow_calls) < Len(users_to_unfollow)
    /\ \E s \in MutationScripts :
         unfollow_calls' =
            Append(unfollow_calls,
                   Call(users_to_unfollow[Len(unfollow_calls) + 1],
                        unfollow_user(s, None, StartTicks)))
    /\ UNCHANGED << run_pc, srv_followers, srv_following, ban_lists,
                    promotion, followers, following, ban_list_followers,
                    ban_list_following, promoted_users, file, file_at_start,
                    file_readable, fetch_log, users_to_follow,
                    users_to_unfollow, follow_calls, reqVars, gateVars,
                    batchVars, pagedVars, discVars, streams,
                    mainVars >>

\* both streams are through: process_subscriptions and run return
RunCompletes ==
    /\ run_pc = "mutating"
    /\ Len(follow_calls) = Len(users_to_follow)
    /\ Len(unfollow_calls) = Len(users_to_unfollow)
    /\ run_pc' = "done"
    /\ UNCHANGED << srv_followers, srv_following, ban_lists, promotion,
                    followers, following, ban_list_followers,
                    ban_list_following, promoted_users, file, file_at_start,
                    file_readable, fetch_log, users_to_follow,
                    users_to_unfollow, follow_calls, unfollow_calls,
                    reqVars, gateVars,
                    batchVars, pagedVars, discVars, streams,
                    mainVars >>

Next ==
    \/ CheckInternetConnection
    \/ LoadConfig
    \/ CreateManager
    \/ LoadBanLists
    \/ FetchCurrentState
    \/ ProcessSubscriptions
    \/ FollowNext
    \/ UnfollowNext
    \/ RunCompletes

Spec == Init /\ [][Next]_vars

(***************************************************************************)
(* SpecStats: the statistics query, after the run of main_async and in     *)
(* stats_command, which creates a manager and only asks for statistics.    *)
(***************************************************************************)
StatsBanLists ==
    [never_follow : SUBSET {UserNames[1]},
     never_unfollow : SUBSET {UserNames[2]},
     ignore_completely : SUBSET {UserNames[2]}]

\* no file, and a file with an active and an expired entry
StatsFiles ==
    { <<>>,
      << PromotedUser(UserNames[1], Today - days_period),
         PromotedUser(UserNames[2], Today - days_period - 1) >> }

InitStats ==
    /\ run_pc \in {"main", "stats_main"}
    /\ Session(StatsBanLists, StatsFiles)

\* stats_command: config_manager.load(), then the manager is created with
\* the ConfigManager and `async with` opens the session of the client
StatsLoadConfig ==
    /\ run_pc = "stats_main"
    /\ \E f \in ConfigFiles :
         /\ run_pc' = IF load(f) = "loaded" THEN "stats_start"
                      ELSE "config_error"
         /\ session' = IF load(f) = "loaded" THEN client_aenter(session)
                        ELSE session
    /\ UNCHANGED << srv_followers, srv_following, ban_lists, promotion,
                    followers, following, ban_list_followers,
                    ban_list_following, promoted_users, file, file_at_start,
                    file_readable, fetch_log, users_to_follow,
                    users_to_unfollow, follow_calls, unfollow_calls,
                    reqVars, gateVars,
                    batchVars, pagedVars, discVars, streams,
                    config_manager, search_request, stats, runs >>

\* the usernames of the calls that returned True
Succeeded(calls) ==
    { calls[i].username : i \in { j \in 1..Len(calls) : calls[j].ok } }

\* the accounts the server lists as followed after the run: a call that
\* returned True was accepted by the server or came back without a
\* response body
FollowingAfterRun ==
    { (srv_following \cup F) \ U :
        F \in SUBSET Succeeded(follow_calls),
        U \in SUBSET Succeeded(unfollow_calls) }

\* get_statistics: fetch_current_state, the counts, and with promotion the
\* check of promoted_users.txt, which rewrites the file
get_statistics(fetched_followers, fetched_following, readable) ==
    LET f == fetched_followers \ ban_list_followers
        g == fetched_following \ ban_list_following
        checked == check_and_update_promoted_users(file, readable)
    IN  [followers |-> f, following |-> g,
         file |-> IF promotion THEN checked.file ELSE file,
         stats |->
           [returned |-> TRUE, after_run |-> run_pc = "done",
            followers |-> Cardinality(f), following |-> Cardinality(g),
            banned_followers |-> Cardinality(ban_list_followers),
            banned_following |-> Cardinality(ban_list_following),
            promoted_active |->
               IF promotion THEN Cardinality(checked.active) ELSE 0,
            promoted_expired |->
               IF promotion THEN Cardinality(checked.expired) ELSE 0]]

\* the responses a list request of the statistics query may meet
StatsScripts == { << Ok200 >>, << NotFound >> }

GetStatistics ==
    /\ run_pc \in {"done", "stats_start"}
    /\ \E s1 \in StatsScripts, s2 \in StatsScripts, readable \in BOOLEAN,
          listed \in FollowingAfterRun :
         LET got_followers ==
                 get_followers(sorted(srv_followers), << s1 >>, 0)
             got_following == get_following(sorted(listed), << s2 >>, 0)
             got == get_statistics(SeqToSet(got_followers.list),
                                   SeqToSet(got_following.list), readable)
         IN  /\ promotion \/ readable
             /\ IF got_followers.raised \/ got_following.raised
                THEN /\ run_pc' = "stats_failed"
                     /\ UNCHANGED << followers, following, file, stats >>
                ELSE /\ run_pc' = "stats_done"
                     /\ followers' = got.followers
                     /\ following' = got.following
                     /\ file' = got.file
                     /\ stats' = got.stats
    /\ UNCHANGED << srv_followers, srv_following, ban_lists, promotion,
                    ban_list_followers, ban_list_following, promoted_users,
                    file_at_start, file_readable, fetch_log, users_to_follow,
                    users_to_unfollow, follow_calls, unfollow_calls,
                    reqVars, gateVars,
                    batchVars, pagedVars, discVars, streams,
                    config_manager,
                    search_request, session, runs >>

\* the exceptions that leave the body of `async with`
ScopeRaised == {"no_config_manager", "failed", "stats_failed"}

\* the body of `async with` is over: with the statistics printed, or with
\* an exception of run or get_statistics.  __aexit__ closes the session,
\* main_async / stats_command return 0 or catch the exception and return
\* 1.  The gather of fetch_current_state does not cancel the other fetch
\* when one raises: it may still be running when the scope is left.
ExitManager ==
    /\ run_pc \in ScopeRaised \cup {"stats_done"}
    /\ \E left \in BOOLEAN :
         /\ left => run_pc \in {"failed", "stats_failed"}
         /\ session' = [client_aexit(session) EXCEPT
                           !.orphan = IF left THEN "running" ELSE "none"]
    /\ run_pc' = IF run_pc \in ScopeRaised THEN "exited_error"
                  ELSE "exited_ok"
    /\ UNCHANGED << srv_followers, srv_following, ban_lists, promotion,
                    followers, following, ban_list_followers,
                    ban_list_following, promoted_users, file, file_at_start,
                    file_readable, fetch_log, users_to_follow,
                    users_to_unfollow, follow_calls, unfollow_calls,
                    reqVars, gateVars,
                    batchVars, pagedVars, discVars, streams,
                    config_manager, search_request, stats, runs >>

\* the fetch left behind reaches its next self.session.request(...): the
\* closed session refuses it with RuntimeError and nothing is sent
OrphanNextRequest ==
    /\ session.orphan = "running"
    /\ session' = [session EXCEPT
                      !.orphan = IF session.is_open THEN "requested"
                                 ELSE "refused"]
    /\ UNCHANGED << runVars, reqVars, gateVars, batchVars, pagedVars,
                    discVars, streams, config_manager, search_request,
                    stats, runs >>

\* asyncio.run cancels the tasks that are left when main_async or
\* stats_command has returned
CancelOrphan ==
    /\ session.orphan = "running"
    /\ session' = [session EXCEPT !.orphan = "cancelled"]
    /\ UNCHANGED << runVars, reqVars, gateVars, batchVars, pagedVars,
                    discVars, streams, config_manager, search_request,
                    stats, runs >>

NextStats ==
    \/ Next
    \/ StatsLoadConfig
    \/ GetStatistics
    \/ ExitManager
    \/ OrphanNextRequest
    \/ CancelOrphan

SpecStats == InitStats /\ [][NextStats]_vars

(***************************************************************************)
(* SpecDelta: get_users_to_follow and get_users_to_unfollow applied to     *)
(* every SubscriptionState over Users, in the order process_subscriptions  *)
(* calls them.                                                             *)
(***************************************************************************)
PromotedLists ==
    { FileOf([u \in S |-> Today]) : S \in SUBSET Users }

InitDelta ==
    /\ RequestIdle
    /\ GateIdle
    /\ BatchIdle
    /\ PagedIdle
    /\ DiscIdle
    /\ StreamsIdle
    /\ run_pc = "start"
    /\ followers \in SUBSET Users
    /\ following \in SUBSET Users
    /\ ban_list_followers \in SUBSET Users
    /\ ban_list_following \in SUBSET Users
    /\ promoted_users \in PromotedLists
    /\ srv_followers = {}
    /\ srv_following = {}
    /\ ban_lists = NoBanLists
    /\ promotion = FALSE
    /\ file = <<>>
    /\ file_at_start = <<>>
    /\ file_readable = TRUE
    /\ fetch_log = NoFetchLog
    /\ users_to_follow = <<>>
    /\ users_to_unfollow = <<>>
    /\ follow_calls = <<>>
    /\ unfollow_calls = <<>>
    /\ config_manager = TRUE
    /\ search_request = NoSearchRequest
    /\ stats = NoStats
    /\ session = NoSession
    /\ runs = 0

GetUsersToFollow ==
    /\ run_pc = "start"
    /\ users_to_follow' =
          sorted(get_users_to_follow(State(followers, following)))
    /\ run_pc' = "to_follow_computed"
    /\ UNCHANGED << srv_followers, srv_following, ban_lists, promotion,
                    followers, following, ban_list_followers,
                    ban_list_following, promoted_users, file, file_at_start,
                    file_readable, fetch_log, users_to_unfollow,
                    follow_calls, unfollow_calls, reqVars, gateVars,
                    batchVars, pagedVars, discVars, streams,
                    mainVars >>

GetUsersToUnfollow ==
    /\ run_pc = "to_follow_computed"
    /\ users_to_unfollow' =
          sorted(get_users_to_unfollow(State(followers, following)))
    /\ run_pc' = "computed"
    /\ UNCHANGED << srv_followers, srv_following, ban_lists, promotion,
                    followers, following, ban_list_followers,
                    ban_list_following, promoted_users, file, file_at_start,
                    file_readable, fetch_log, users_to_follow,
                    follow_calls, unfollow_calls, reqVars, gateVars,
                    batchVars, pagedVars, discVars, streams,
                    mainVars >>

NextDelta == GetUsersToFollow \/ GetUsersToUnfollow

SpecDelta == InitDelta /\ [][NextDelta]_vars

(***************************************************************************)
(* SpecBatch: one call of batch_follow or batch_unfollow.  The for loop    *)
(* creates one coroutine per username and sleeps `delay` after each; a     *)
(* coroutine object does not run until it is awaited or wrapped in a task, *)
(* which asyncio.gather does after the loop, for all of them, in the order *)
(* of the list.  batch_now counts in units of `delay`.                     *)
(***************************************************************************)
BatchUsers == { UserNames[i] : i \in 1..MaxBatch }

\* the batches _process_follows / _process_unfollows pass: slices of a
\* sorted list of distinct usernames
Batches == { sorted(S) : S \in SUBSET BatchUsers }

Coroutine(username) ==
    [username |-> username, state |-> "created", started_at |-> -1,
     response |-> "pending"]

InitBatch ==
    /\ RequestIdle
    /\ GateIdle
    /\ RunIdle
    /\ PagedIdle
    /\ DiscIdle
    /\ StreamsIdle
    /\ batch_pc = "creating"
    /\ batch_kind \in {"follow", "unfollow"}
    /\ batch_usernames \in Batches
    /\ batch_tasks = <<>>
    /\ batch_now = 0
    /\ batch_results = <<>>

\* one iteration of `for username in usernames`: the coroutine object is
\* made and appended, then the loop sleeps `delay`
CreateCoroutine ==
    /\ batch_pc = "creating"
    /\ Len(batch_tasks) < Len(batch_usernames)
    /\ batch_tasks' =
          Append(batch_tasks,
                 Coroutine(batch_usernames[Len(batch_tasks) + 1]))
    /\ batch_now' = batch_now + 1
    /\ UNCHANGED << batch_pc, batch_kind, batch_usernames, batch_results,
                    reqVars, gateVars, runVars,
                    pagedVars, restVars >>

\* the loop is over: asyncio.gather wraps the coroutines in tasks
Gather ==
    /\ batch_pc = "creating"
    /\ Len(batch_tasks) = Len(batch_usernames)
    /\ batch_pc' = "gathering"
    /\ UNCHANGED << batch_kind, batch_usernames, batch_tasks, batch_now,
                    batch_results, reqVars, gateVars, runVars,
                    pagedVars, restVars >>

\* the event loop runs the tasks of gather in the order they were made:
\* the call of task i starts
StartCall(i) ==
    /\ batch_pc = "gathering"
    /\ batch_tasks[i].state = "created"
    /\ \A j \in 1..(i - 1) : batch_tasks[j].state # "created"
    /\ batch_tasks' = [batch_tasks EXCEPT ![i].state = "running",
                                          ![i].started_at = batch_now]
    /\ UNCHANGED << batch_pc, batch_kind, batch_usernames, batch_now,
                    batch_results, reqVars, gateVars, runVars,
                    pagedVars, restVars >>

\* the call of task i comes back, with what follow_user / unfollow_user
\* makes of the responses of the server
FinishCall(i) ==
    /\ batch_pc = "gathering"
    /\ batch_tasks[i].state = "running"
    /\ \E s \in MutationScripts :
         batch_tasks' =
            [batch_tasks EXCEPT
               ![i].state = "done",
               ![i].response =
                   IF batch_kind = "follow"
                   THEN follow_user(s, None, StartTicks)
                   ELSE unfollow_user(s, None, StartTicks)]
    /\ UNCHANGED << batch_pc, batch_kind, batch_usernames, batch_now,
                    batch_results, reqVars, gateVars, runVars,
                    pagedVars, restVars >>

\* what gather returns: the results in the order of the awaitables
gather(tasks) == [i \in 1..Len(tasks) |-> tasks[i].response]

\* a variant in which a failure ends the batch: the later usernames are
\* reported as failed
collect_results_until_failure(usernames, resps) ==
    [u \in SeqToSet(usernames) |->
        LET i == CHOOSE k \in 1..Len(usernames) :
                    /\ usernames[k] = u
                    /\ \A j \in (k + 1)..Len(usernames) : usernames[j] # u
        IN  IF \E j \in 1..(i - 1) : resps[j] = FALSE THEN FALSE
            ELSE IF resps[i] \notin BOOLEAN THEN FALSE ELSE resps[i]]

\* the loop over zip(usernames, responses): a later pair with the same
\* username overwrites an earlier one; an exception counts as False
collect_results(usernames, resps) ==
    [u \in SeqToSet(usernames) |->
        LET i == CHOOSE k \in 1..Len(usernames) :
                    /\ usernames[k] = u
                    /\ \A j \in (k + 1)..Len(usernames) : usernames[j] # u
        IN  IF resps[i] \notin BOOLEAN THEN FALSE ELSE resps[i]]

\* every task is done: gather returns and the dictionary is built
BatchReturns ==
    /\ batch_pc = "gathering"
    /\ \A i \in 1..Len(batch_tasks) : batch_tasks[i].state = "done"
    /\ batch_results' = collect_results(batch_usernames, gather(batch_tasks))
    /\ batch_pc' = "returned"
    /\ UNCHANGED << batch_kind, batch_usernames, batch_tasks, batch_now,
                    reqVars, gateVars, runVars,
                    pagedVars, restVars >>

NextBatch ==
    \/ CreateCoroutine
    \/ Gather
    \/ \E i \in 1..Len(batch_tasks) : StartCall(i) \/ FinishCall(i)
    \/ BatchReturns

SpecBatch == InitBatch /\ [][NextBatch]_vars

(***************************************************************************)
(* SpecStreams: the gather of process_subscriptions.  Each stream is a     *)
(* coroutine; a step of the model runs one of them up to its next await.   *)
(* calls lists the follow_user / unfollow_user coroutines of the stream in *)
(* the order they were created, each with the offset of its sub-batch.     *)
(***************************************************************************)
batch_size == 5

Reverse(q) == [ j \in 1..Len(q) |-> q[Len(q) + 1 - j] ]

\* list(users_to_follow) and list(users_to_unfollow): two disjoint sets, in
\* an order that is not the sorted one
StreamInputs ==
    { [k \in StreamKinds |->
         NewStream(Reverse(
           IF k = "follow" THEN SubSeq(UserNames, 1, n[1])
           ELSE SubSeq(UserNames, n[1] + 1, n[1] + n[2])))] :
        n \in { m \in (0..MaxTargets) \X (0..MaxTargets) :
                   m[1] + m[2] <= MaxTargets } }

InitStreams ==
    /\ RequestIdle
    /\ GateIdle
    /\ RunIdle
    /\ BatchIdle
    /\ PagedIdle
    /\ DiscIdle
    /\ streams \in StreamInputs

\* the sub-batch users[i:i + batch_size]
CurrentBatch(st) ==
    SubSeq(st.users, st.i + 1, Min(st.i + batch_size, Len(st.users)))

\* the positions in calls of the coroutines of the current sub-batch
BatchCalls(st) ==
    { j \in 1..Len(st.calls) : st.calls[j].batch = st.i }

\* _process_follows: an empty list returns {}; otherwise the list is sorted
BeginStream(k) ==
    /\ streams[k].pc = "called"
    /\ streams' =
         [streams EXCEPT ![k] =
            IF @.targets = <<>> THEN [@ EXCEPT !.pc = "returned"]
            ELSE [@ EXCEPT !.pc = "creating",
                           !.users = sorted(SeqToSet(streams[k].targets))]]
    /\ UNCHANGED << reqVars, gateVars, runVars, batchVars, pagedVars,
                    discVars, mainVars >>

\* batch_follow: task = self.follow_user(username); tasks.append(task);
\* await asyncio.sleep(delay)
CreateTask(k) ==
    LET st == streams[k]
        n == Cardinality(BatchCalls(st))
    IN  /\ st.pc = "creating"
        /\ n < Len(CurrentBatch(st))
        /\ streams' =
             [streams EXCEPT ![k].calls =
                Append(@, [username |-> CurrentBatch(st)[n + 1],
                           batch |-> st.i, state |-> "created",
                           ok |-> FALSE])]
        /\ UNCHANGED << reqVars, gateVars, runVars, batchVars, pagedVars,
                        discVars, mainVars >>

\* batch_follow: await asyncio.gather(*tasks, return_exceptions=True)
GatherTasks(k) ==
    LET st == streams[k]
    IN  /\ st.pc = "creating"
        /\ Cardinality(BatchCalls(st)) = Len(CurrentBatch(st))
        /\ streams' = [streams EXCEPT ![k].pc = "gathering"]
        /\ UNCHANGED << reqVars, gateVars, runVars, batchVars, pagedVars,
                        discVars, mainVars >>

\* gather runs the coroutines, in the order of the list
StartTask(k) ==
    LET st == streams[k]
        created == { j \in BatchCalls(st) : st.calls[j].state = "created" }
    IN  /\ st.pc = "gathering"
        /\ created # {}
        /\ LET j == CHOOSE x \in created : \A y \in created : x <= y
           IN  streams' =
                 [streams EXCEPT ![k].calls[j].state = "started"]
        /\ UNCHANGED << reqVars, gateVars, runVars, batchVars, pagedVars,
                        discVars, mainVars >>

\* follow_user / unfollow_user returns
FinishTask(k, j) ==
    LET st == streams[k]
    IN  /\ st.pc = "gathering"
        /\ j \in BatchCalls(st)
        /\ st.calls[j].state = "started"
        /\ \E s \in MutationScripts :
             streams' =
               [streams EXCEPT
                  ![k].calls[j] =
                     [@ EXCEPT !.state = "done",
                               !.ok = IF k = "follow"
                                      THEN follow_user(s, None, StartTicks)
                                      ELSE unfollow_user(s, None, StartTicks)]]
        /\ UNCHANGED << reqVars, gateVars, runVars, batchVars, pagedVars,
                        discVars, mainVars >>

\* a variant of gather that returns with the first coroutine that ends
gather_returns_any(st) ==
    \E j \in BatchCalls(st) : st.calls[j].state = "done"

\* gather returns when every coroutine of the list has ended
gather_returns(st) ==
    \A j \in BatchCalls(st) : st.calls[j].state = "done"

\* results.update(batch_results)
update_results(results, st) ==
    LET batch == { j \in BatchCalls(st) : st.calls[j].state = "done" }
        names == { st.calls[j].username : j \in batch }
    IN  [ u \in (DOMAIN results) \cup names |->
            IF u \in names
            THEN st.calls[CHOOSE j \in batch : st.calls[j].username = u].ok
            ELSE results[u] ]

\* a variant that gives up after a sub-batch with a failed call
after_batch_stop_on_failure(st, results) ==
    IF \E u \in DOMAIN results : ~results[u] THEN "returned"
    ELSE IF st.i + batch_size < Len(st.users) THEN "sleeping"
    ELSE "returned"

\* if i + batch_size < len(users): await asyncio.sleep(delay); after the
\* last sub-batch the stream returns its results
after_batch(st, results) ==
    IF st.i + batch_size < Len(st.users) THEN "sleeping" ELSE "returned"

\* batch_follow returns; _process_follows updates its results
BatchReturnsToStream(k) ==
    LET st == streams[k]
        results == update_results(st.results, st)
    IN  /\ st.pc = "gathering"
        /\ gather_returns(st)
        /\ streams' = [streams EXCEPT ![k].results = results,
                                       ![k].pc = after_batch(st, results)]
        /\ UNCHANGED << reqVars, gateVars, runVars, batchVars, pagedVars,
                        discVars, mainVars >>

\* the delay between two sub-batches is over: the for loop goes on
NextSubBatch(k) ==
    /\ streams[k].pc = "sleeping"
    /\ streams' = [streams EXCEPT ![k].pc = "creating",
                                   ![k].i = @ + batch_size]
    /\ UNCHANGED << reqVars, gateVars, runVars, batchVars, pagedVars,
                    discVars, mainVars >>

\* the steps of one stream
StreamStep(k) ==
    \/ BeginStream(k)
    \/ CreateTask(k)
    \/ GatherTasks(k)
    \/ StartTask(k)
    \/ \E j \in 1..MaxTargets + 1 : FinishTask(k, j)
    \/ BatchReturnsToStream(k)
    \/ NextSubBatch(k)

NextStreams == \E k \in StreamKinds : StreamStep(k)

SpecStreams == InitStreams /\ [][NextStreams]_vars

(***************************************************************************)
(* SpecPages: one call of get_followers or get_following against a server  *)
(* that holds a list of `count` logins and serves it in pages of PER_PAGE.  *)
(* The logins are numbered in the order the server lists them.             *)
(***************************************************************************)
Logins(n) == [i \in 1..n |-> i]

\* list sizes around the page boundaries
Sizes ==
    { k * PER_PAGE + r : k \in 0..MaxFullPages, r \in {0, 1, PER_PAGE - 1} }

\* the most pages a call can ask for
ScriptPages == MaxFullPages + 1

\* the server answers every page request at once, but for at most one page,
\* whose request meets any of the fetch scripts
PageScripts ==
    { [p \in 1..ScriptPages |-> IF p = bad THEN s ELSE << Ok200 >>] :
        bad \in 0..ScriptPages, s \in FetchScripts }

InitPages ==
    /\ RequestIdle
    /\ GateIdle
    /\ RunIdle
    /\ BatchIdle
    /\ DiscIdle
    /\ StreamsIdle
    /\ paged_pc = "called"
    /\ paged_call \in [kind : {"followers", "following"},
                        count : Sizes,
                        max_pages : 0..MaxPagesArg,
                        scripts : PageScripts]
    /\ paged_result = NoPagedResult

GetFollowers ==
    /\ paged_pc = "called"
    /\ paged_call.kind = "followers"
    /\ paged_result' = get_followers(Logins(paged_call.count),
                                     paged_call.scripts, paged_call.max_pages)
    /\ paged_pc' = "returned"
    /\ UNCHANGED << paged_call, reqVars, gateVars, runVars, batchVars,
                    restVars >>

GetFollowing ==
    /\ paged_pc = "called"
    /\ paged_call.kind = "following"
    /\ paged_result' = get_following(Logins(paged_call.count),
                                     paged_call.scripts, paged_call.max_pages)
    /\ paged_pc' = "returned"
    /\ UNCHANGED << paged_call, reqVars, gateVars, runVars, batchVars,
                    restVars >>

NextPages == GetFollowers \/ GetFollowing

SpecPages == InitPages /\ [][NextPages]_vars

(***************************************************************************)
(* SpecDiscovery: one call of find_users_to_promote.  The followers of the *)
(* managed account are the seeds; every user has followers of their own on *)
(* the server, or a follower list whose fetch fails.                       *)
(***************************************************************************)
Strangers == { UserNames[NumUsers + i] : i \in 1..NumStrangers }

DiscNames == Users \cup Strangers \cup {config_username}

\* what the sampled pages of the followers of u can hold
ServedTo(u) ==
    { [failed |-> TRUE, list |-> <<>>] } \cup
    { [failed |-> FALSE, list |-> sorted(S)] :
        S \in { T \in SUBSET (DiscNames \ {u}) : Cardinality(T) <= MaxServed } }

\* the followers of the managed account itself are current_followers; the
\* sampled pages of a stranger are empty
Servers(current_followers) ==
    { [ u \in DiscNames |->
          IF u = config_username
          THEN [failed |-> FALSE, list |-> sorted(current_followers)]
          ELSE IF u \in Strangers THEN [failed |-> FALSE, list |-> <<>>]
          ELSE f[u] ] :
        f \in { g \in [Users -> UNION { ServedTo(u) : u \in Users }] :
                  \A u \in Users : g[u] \in ServedTo(u) } }

\* the outcomes of random.shuffle
Shuffles(S) ==
    { q \in [1..Cardinality(S) -> S] :
        \A i, j \in 1..Cardinality(S) : q[i] = q[j] => i = j }

DiscCalls ==
    UNION { [current_followers : {cf},
             ban_list : SUBSET Strangers,
             count : 1..2,
             max_depth : 1..2,
             order : Shuffles(cf),
             served : Servers(cf)] : cf \in SUBSET Users }

InitDiscovery ==
    /\ RequestIdle
    /\ GateIdle
    /\ RunIdle
    /\ BatchIdle
    /\ PagedIdle
    /\ StreamsIdle
    /\ disc_pc = "called"
    /\ disc_call \in DiscCalls
    /\ disc_result = NoDiscResult

FindUsersToPromote ==
    /\ disc_pc = "called"
    /\ LET c == disc_call
           found == search(c.current_followers, c.ban_list, c.count,
                           c.max_depth, c.order, c.served)
       IN  disc_result' =
             [list |-> find_users_to_promote(
                         c.current_followers, c.ban_list, c.count,
                         c.max_depth, c.order, c.served),
              examined |-> found.examined,
              requested |-> found.requested,
              batches |-> found.batches,
              levels |-> found.levels,
              queue |-> found.queue,
              promoted |-> Len(found.promoted)]
    /\ disc_pc' = "returned"
    /\ UNCHANGED << disc_call, reqVars, gateVars, runVars, batchVars,
                    pagedVars, mainVars, streams >>

NextDiscovery == FindUsersToPromote

SpecDiscovery == InitDiscovery /\ [][NextDiscovery]_vars

(***************************************************************************)
(* SpecRuns: the promotion step of successive runs on one                  *)
(* promoted_users.txt, with promotion enabled and the same                 *)
(* count_promotion_users.  Days pass between runs; the dates of the file   *)
(* are kept relative to the day of the run, which is always Today.         *)
(***************************************************************************)
\* the usernames the file can name: users the search found, and a user
\* who has since become a follower
StoredNames == Strangers \cup { UserNames[1] }

OldestDate == Today - days_period - 1

\* the files the program can have written: one entry per username, in
\* any order of dates
RunFiles ==
    UNION { { FileOf(d) : d \in [S -> OldestDate..Today] } :
              S \in { T \in SUBSET StoredNames :
                         Cardinality(T) <= count_promotion_users + 1 } }

\* what the sampled pages of a follower hold: the fetch fails, or the page
\* is empty, or it lists the strangers
RunServers(current_followers) ==
    { [ u \in DiscNames |->
          IF u \in current_followers THEN f[u]
          ELSE [failed |-> FALSE, list |-> <<>>] ] :
        f \in [ current_followers ->
                  { [failed |-> TRUE, list |-> <<>>],
                    [failed |-> FALSE, list |-> <<>>],
                    [failed |-> FALSE, list |-> sorted(Strangers)] } ] }

InitRuns ==
    /\ RequestIdle
    /\ GateIdle
    /\ BatchIdle
    /\ PagedIdle
    /\ DiscIdle
    /\ StreamsIdle
    /\ NoRunYet
    /\ run_pc = "promotion_runs"
    /\ srv_followers \in SUBSET Users
    /\ srv_following = {}
    /\ ban_lists = NoBanLists
    /\ promotion = TRUE
    /\ file \in RunFiles
    /\ file_at_start = file

\* one run: process_promotion on the followers the run fetched
PromotionRun ==
    /\ run_pc = "promotion_runs"
    /\ runs < MaxRuns
    /\ \E readable \in BOOLEAN, order \in Shuffles(srv_followers),
          served \in RunServers(srv_followers) :
         LET p == process_promotion_on(srv_followers, srv_following, {},
                                       file, readable, order, served)
         IN  /\ file' = p.file
             /\ file_readable' = readable
             /\ search_request' =
                  IF p.needed > 0
                  THEN [invoked |-> TRUE, count |-> p.needed,
                        found |-> p.new_promoted]
                  ELSE NoSearchRequest
    /\ runs' = runs + 1
    /\ UNCHANGED << run_pc, srv_followers, srv_following, ban_lists,
                    promotion, followers, following, ban_list_followers,
                    ban_list_following, promoted_users, file_at_start,
                    fetch_log, users_to_follow, users_to_unfollow,
                    follow_calls, unfollow_calls, reqVars, gateVars,
                    batchVars, pagedVars, discVars, streams,
                    config_manager, stats, session >>

\* the file as the run of the next day finds it
a_day_later(stored) ==
    [ i \in 1..Len(stored) |->
        PromotedUser(stored[i].username,
                     Max(stored[i].promotion_date - 1, OldestDate)) ]

\* a day passes between two runs
DayPasses ==
    /\ run_pc = "promotion_runs"
    /\ file' = a_day_later(file)
    /\ UNCHANGED << run_pc, srv_followers, srv_following, ban_lists,
                    promotion, followers, following, ban_list_followers,
                    ban_list_following, promoted_users, file_at_start,
                    file_readable, fetch_log, users_to_follow,
                    users_to_unfollow, follow_calls, unfollow_calls,
                    reqVars, gateVars, batchVars, pagedVars, discVars,
                    streams, mainVars >>

NextRuns == PromotionRun \/ DayPasses

SpecRuns == InitRuns /\ [][NextRuns]_vars

(***************************************************************************)
(* Properties of the delta (SpecDelta).                                    *)
(***************************************************************************)
\* C1: the usernames to follow are exactly the followers that are neither
\* followed nor on the follow ban list, and the usernames to unfollow are
\* exactly the followed accounts that are no followers, not promoted and
\* not on the unfollow ban list.
C1_DeltaExact ==
    /\ run_pc \in {"to_follow_computed", "computed"} =>
          \A u \in Users :
              u \in SeqToSet(users_to_follow)
                 <=> (/\ u \in followers
                      /\ u \notin following
                      /\ u \notin ban_list_followers)
    /\ run_pc = "computed" =>
          \A u \in Users :
              u \in SeqToSet(users_to_unfollow)
                 <=> (/\ u \in following
                      /\ u \notin followers
                      /\ u \notin Usernames(promoted_users)
                      /\ u \notin ban_list_following)

\* both lists were computed and are not empty, from a state with ban lists
\* and promoted users
C1_Witness ==
    /\ run_pc = "computed"
    /\ users_to_follow # <<>>
    /\ users_to_unfollow # <<>>
    /\ ban_list_followers # {}
    /\ ban_list_following # {}
    /\ promoted_users # <<>>

(***************************************************************************)
(* Properties of the run (Spec).                                           *)
(***************************************************************************)
Called(calls) == { calls[i].username : i \in 1..Len(calls) }

FetchIncomplete ==
    \/ \E i \in 1..Len(fetch_log.followers) :
          fetch_log.followers[i].outcome # "json"
    \/ \E i \in 1..Len(fetch_log.following) :
          fetch_log.following[i].outcome # "json"

FetchComplete ==
    /\ fetch_log.followers # <<>>
    /\ fetch_log.following # <<>>
    /\ ~FetchIncomplete

StoredAt(stored, P(_)) ==
    { stored[i].username : i \in { j \in 1..Len(stored) : P(stored[j]) } }

ExpiredNow(u) == is_expired(u, days_period, Today)

ActiveNow(u) == ~is_expired(u, days_period, Today)

\* C2: in every run the list of usernames to follow and the list of
\* usernames to unfollow share no username, and no username is the target
\* of both a follow call and an unfollow call.
C2_FollowUnfollowDisjoint ==
    /\ SeqToSet(users_to_follow) \cap SeqToSet(users_to_unfollow) = {}
    /\ Called(follow_calls) \cap Called(unfollow_calls) = {}

\* a run with promotion that folded an active promoted user into the
\* followers has issued both a follow and an unfollow call
C2_Witness ==
    /\ run_pc = "done"
    /\ promotion
    /\ StoredAt(file_at_start, ActiveNow) # {}
    /\ file_readable
    /\ follow_calls # <<>>
    /\ unfollow_calls # <<>>

C4_ExpiredPromotedUnfollowed ==
    (run_pc = "done" /\ promotion /\ file_readable /\ FetchComplete) =>
        \A u \in StoredAt(file_at_start, ExpiredNow) :
            (/\ u \in srv_following
             /\ u \notin srv_followers
             /\ u \notin ban_lists.never_unfollow)
               => u \in Called(unfollow_calls)

\* C7: when a page request of the followers or following fetch ended
\* without a successful response, the run has failed with the exception
\* and no follow or unfollow call is issued.
C7_FailedFetchAbortsRun ==
    FetchIncomplete =>
        (/\ run_pc = "failed"
         /\ follow_calls = <<>>
         /\ unfollow_calls = <<>>)

\* C15: in every run, with or without promotion, no username on
\* never_follow or ignore_completely is on the list to follow or the target
\* of a follow call, be it a follower or an active promoted user.
C15_BannedNeverFollowed ==
    \A u \in ban_lists.never_follow \cup ban_lists.ignore_completely :
        /\ run_pc \in {"mutating", "done"} => u \notin SeqToSet(users_to_follow)
        /\ u \notin Called(follow_calls)

\* the run is over and followed somebody; an active promoted user that is
\* not followed and a follower that is not followed are on never_follow
C15_Witness ==
    /\ run_pc = "done"
    /\ promotion
    /\ file_readable
    /\ FetchComplete
    /\ follow_calls # <<>>
    /\ \E u \in StoredAt(file_at_start, ActiveNow) :
          u \in ban_lists.never_follow /\ u \notin srv_following
    /\ \E v \in srv_followers :
          v \in ban_lists.never_follow /\ v \notin srv_following

\* C16: in every run no username on never_unfollow is on the list to
\* unfollow or the target of an unfollow call, even when it is followed,
\* does not follow back and is an expired promoted user.
C16_NeverUnfollowKept ==
    \A u \in ban_lists.never_unfollow :
        /\ u \notin SeqToSet(users_to_unfollow)
        /\ u \notin Called(unfollow_calls)

\* the run is over and unfollowed somebody; an expired promoted user on
\* never_unfollow is followed and does not follow back
C16_Witness ==
    /\ run_pc = "done"
    /\ promotion
    /\ file_readable
    /\ FetchComplete
    /\ unfollow_calls # <<>>
    /\ \E u \in StoredAt(file_at_start, ExpiredNow) :
          /\ u \in ban_lists.never_unfollow
          /\ u \in srv_following
          /\ u \notin srv_followers

\* C17: the managed account's own username is never on the list to follow
\* or the list to unfollow and never the target of a follow or unfollow
\* call, also when the promoted-users file names the account itself.
C17_OwnAccountNeverTargeted ==
    /\ config_username \notin SeqToSet(users_to_follow)
    /\ config_username \notin SeqToSet(users_to_unfollow)
    /\ config_username \notin Called(follow_calls)
    /\ config_username \notin Called(unfollow_calls)

\* C18: a promoted user whose date lies D days before the day of the run
\* is expired iff D > days_period: the run drops exactly the entries with
\* D > days_period from the file, and an entry with D = days_period stays
\* in the file and is counted among the followers.
C18_ExpiredIffOlder ==
    (run_pc \in {"mutating", "done"} /\ promotion /\ file_readable) =>
        \A i \in 1..Len(file_at_start) :
            LET u == file_at_start[i]
                D == Today - u.promotion_date
            IN  /\ is_expired(u, days_period, Today) <=> D > days_period
                /\ D > days_period <=> u \notin SeqToSet(file)
                /\ D = days_period =>
                      (u \in SeqToSet(file) /\ u.username \in followers)

\* the file held an entry of exactly days_period days and an older one;
\* after the run it holds the first only
C18_Witness ==
    /\ run_pc = "done"
    /\ promotion
    /\ file_readable
    /\ \E i, j \in 1..Len(file_at_start) :
          /\ Today - file_at_start[i].promotion_date = days_period
          /\ Today - file_at_start[j].promotion_date = days_period + 1
          /\ file = << file_at_start[i] >>

(***************************************************************************)
(* Properties of one _make_request call (SpecRequest).                     *)
(***************************************************************************)
Terminated == req_pc \in {"returned", "raised"}

IsSuccess(resp) == resp.status >= 200 /\ resp.status < 300

IsServerError(resp) == resp.status \in {502, 503, 504}

IsRateLimit(resp) == resp.status = 429 /\ resp.hdr

AllOf(P(_), n) == \A i \in 1..n : P(responses[i])

Last(s) == s[Len(s)]

\* C5: 429 responses are not counted against the retry ceiling: while a
\* call has received nothing but 429 responses with rate-limit headers it
\* keeps retrying (it neither returns nor raises), and when a 2xx response
\* follows any number of them the call returns the body of that response.
C5_RateLimitNotCounted ==
    /\ (responses # <<>> /\ AllOf(IsRateLimit, Len(responses)))
          => req_pc = "loop"
    /\ (responses # <<>> /\ AllOf(IsRateLimit, Len(responses) - 1)
          /\ IsSuccess(Last(responses)))
          => (req_pc = "returned" /\ result = response_body(Last(responses)))

\* C6: follow_user / unfollow_user return True only when the server
\* answered the call with a 2xx response, and False for every call that
\* ended otherwise.
C6_MutateTrueOnlyOnSuccess ==
    call_result # "pending" =>
        (call_result = "True"
            <=> (responses # <<>> /\ IsSuccess(Last(responses))))

\* C9: a call that has received only 502/503/504 responses retries after
\* the first and the second of them, sleeping 1 and then 2 seconds; a 2xx
\* response that follows makes it return that response (503, 503, 200:
\* two retries, sleeps 1 then 2); the third 5xx in a row is raised to the
\* caller and no fourth attempt is made.
ServerErrorSleeps == << initial_retry_delay, 2 * initial_retry_delay >>

C9_ServerErrorBackoff ==
    /\ \A k \in 1..(max_retries - 1) :
          (Len(responses) = k /\ AllOf(IsServerError, k))
             => (req_pc = "loop" /\ sleeps = SubSeq(ServerErrorSleeps, 1, k))
    /\ \A k \in 0..(max_retries - 1) :
          (Len(responses) = k + 1 /\ AllOf(IsServerError, k)
             /\ IsSuccess(responses[k + 1]))
             => (/\ req_pc = "returned"
                 /\ result = response_body(responses[k + 1])
                 /\ sleeps = SubSeq(ServerErrorSleeps, 1, k))
    /\ (Len(responses) >= max_retries /\ AllOf(IsServerError, max_retries))
          => (/\ req_pc = "raised"
              /\ result = "ClientResponseError"
              /\ Len(responses) = max_retries
              /\ sleeps = ServerErrorSleeps)

\* 503, 503, 200 has been served: the call returned after two retries
C9_Witness ==
    /\ req_pc = "returned"
    /\ responses = << Unavailable, Unavailable, Ok200 >>
    /\ sleeps = << 1, 2 >>

\* C10: a call whose first two attempts fail with a connection error and
\* whose third succeeds slept 1 second and then 2 seconds.
C10_ConnectionBackoffDoubles ==
    (Len(responses) = 3 /\ responses[1] = ConnError /\ responses[2] = ConnError
        /\ IsSuccess(responses[3]))
       => sleeps = << 1, 2 >>

\* an error status the client has no special handling for
IsOtherError(resp) ==
    resp.status >= 400 /\ resp.status \notin {429, 502, 503, 504}

\* C12: a response with an error status other than 429, 502, 503 and 504
\* is the last response of its call: the call raises it to the caller
\* without a sleep and without another attempt, so that such a first
\* response is raised after exactly one attempt and no sleep at all.
C12_OtherErrorRaisedAtOnce ==
    \A k \in 1..Len(responses) :
        IsOtherError(responses[k]) =>
            /\ k = Len(responses)
            /\ req_pc = "raised"
            /\ result = "ClientResponseError"
            /\ Len(sleeps) = k - 1

\* each of 403, 404 and 500 can be the first response of a call, which
\* then has raised after one attempt
OtherErrorFirst(resp) ==
    /\ responses = << resp >>
    /\ req_pc = "raised"
    /\ sleeps = <<>>

C12_Witness ==
    OtherErrorFirst(NotFound) \/ OtherErrorFirst(ServerError)
        \/ OtherErrorFirst(Forbidden)

\* the clock when the latest attempt of the call got its response
LastResponseAt == now - Last(sleeps) * TicksPerSecond

\* the time left until the reset of the recorded window, in ticks
TicksUntilReset(t) == Max(0, rate_limit.reset_time * TicksPerSecond - t)

\* the call got a 429, slept, and is about to issue its next attempt
RetryAfterRateLimit ==
    /\ req_pc = "loop"
    /\ attempt < max_retries
    /\ responses # <<>>
    /\ Last(responses).status = 429

\* C11 as stated: the next attempt after a 429 is not issued before
\* max(0, resetAt - now) + 1 seconds have elapsed since the response.
C11_WaitResetPlusOne ==
    RetryAfterRateLimit =>
        now - LastResponseAt >= TicksUntilReset(LastResponseAt) + TicksPerSecond

\* C11 amended: the next attempt after a 429 is not issued before
\* floor(max(0, resetAt - now)) + 1 whole seconds have elapsed since the
\* response, which is more than max(0, resetAt - now): the attempt comes
\* after the reset of the recorded window.
C11_WaitWholeSecondsPastReset ==
    RetryAfterRateLimit =>
        /\ now - LastResponseAt >=
              (TicksUntilReset(LastResponseAt) \div TicksPerSecond + 1)
                 * TicksPerSecond
        /\ now - LastResponseAt > TicksUntilReset(LastResponseAt)
        /\ now > rate_limit.reset_time * TicksPerSecond

\* a 429 came between two whole seconds with the reset ahead, and the call
\* slept the whole seconds left and one more
C11_Witness ==
    /\ RetryAfterRateLimit
    /\ LastResponseAt % TicksPerSecond # 0
    /\ TicksUntilReset(LastResponseAt) > TicksPerSecond
    /\ Last(sleeps) = TicksUntilReset(LastResponseAt) \div TicksPerSecond + 1

(***************************************************************************)
(* Properties of the semaphore (SpecGate).                                 *)
(***************************************************************************)
\* C8: at every moment at most max_concurrent requests are in flight,
\* counted over all callers of the client whatever traffic they belong to,
\* and the free permits and the permits held add up to max_concurrent.
C8_BoundedInFlight ==
    /\ Cardinality(InFlight) <= max_concurrent
    /\ sem_value + Cardinality(InFlight) = max_concurrent

\* the gate is closed: max_concurrent requests of several kinds of traffic
\* are in flight and another caller is waiting for a permit
C8_Witness ==
    /\ Cardinality(InFlight) = max_concurrent
    /\ \E t \in Tasks : task_pc[t] = "idle"
    /\ \A k \in {"follow", "unfollow", "get_followers", "get_following",
                 "promotion"} : \E t \in InFlight : TaskKind(t) = k

(***************************************************************************)
(* Properties of a batch (SpecBatch).                                      *)
(***************************************************************************)
\* C13: the dictionary a batch returns has exactly the usernames of the
\* batch as its keys and maps each username to the outcome of its own
\* call, False for a call that failed, whatever became of the other calls
\* of the batch; and every call of the batch was made and has come back.
C13_BatchIsolation ==
    batch_pc = "returned" =>
        /\ DOMAIN batch_results = SeqToSet(batch_usernames)
        /\ Len(batch_tasks) = Len(batch_usernames)
        /\ \A i \in 1..Len(batch_usernames) :
              /\ batch_tasks[i].username = batch_usernames[i]
              /\ batch_tasks[i].state = "done"
              /\ batch_results[batch_usernames[i]] = batch_tasks[i].response
              /\ batch_tasks[i].response = FALSE
                    => batch_results[batch_usernames[i]] = FALSE

\* a batch of three has returned: the call of the first username failed,
\* the calls of the other two succeeded
C13_Witness ==
    /\ batch_pc = "returned"
    /\ Len(batch_usernames) = 3
    /\ batch_tasks[1].response = FALSE
    /\ batch_results[batch_usernames[1]] = FALSE
    /\ batch_results[batch_usernames[2]] = TRUE
    /\ batch_results[batch_usernames[3]] = TRUE

\* C14: the calls of a batch start at fixed intervals in the order of the
\* list: the call of a username starts one delay after the call of the
\* username before it started, and while the loop is still making the
\* later calls the call of the first username is already in flight.
C14_StaggeredStarts ==
    /\ \A i \in 1..(Len(batch_tasks) - 1) :
          (batch_tasks[i].started_at >= 0
              /\ batch_tasks[i + 1].started_at >= 0)
             => batch_tasks[i + 1].started_at = batch_tasks[i].started_at + 1
    /\ (batch_pc = "creating" /\ Len(batch_tasks) >= 2)
          => batch_tasks[1].state # "created"

(***************************************************************************)
(* Properties of a list call (SpecPages).                                  *)
(***************************************************************************)
\* every page request of the call got a page of JSON
AllPagesServed ==
    /\ ~paged_result.raised
    /\ \A i \in 1..Len(paged_result.log) :
          paged_result.log[i].outcome = "json"

PagesRequested == Len(paged_result.log)

\* the first page of the list that is not full
FirstShortPage == paged_call.count \div PER_PAGE + 1

\* C19: a list call requests the pages 1, 2, 3, ... in this order; when
\* the server serves every request, each page but the last one requested
\* is full, a call without max_pages stops at the first page that holds
\* fewer than PER_PAGE items, and the list returned is the items of the
\* requested pages in page order.
C19_PagesInOrderUntilShort ==
    paged_pc = "returned" =>
        /\ \A i \in 1..PagesRequested : paged_result.log[i].page = i
        /\ AllPagesServed =>
              /\ \A i \in 1..(PagesRequested - 1) :
                    Len(ServerPage(Logins(paged_call.count), i)) = PER_PAGE
              /\ paged_call.max_pages = 0 =>
                    PagesRequested = FirstShortPage
              /\ paged_call.max_pages # 0 =>
                    PagesRequested = Min(FirstShortPage, paged_call.max_pages)
              /\ paged_result.list =
                    SubSeq(Logins(paged_call.count), 1,
                           Min(paged_call.count, PagesRequested * PER_PAGE))

\* a list of two full pages and a short one was fetched whole, in three
\* requests
C19_Witness ==
    /\ paged_pc = "returned"
    /\ AllPagesServed
    /\ paged_call.max_pages = 0
    /\ paged_call.count = 2 * PER_PAGE + 1
    /\ PagesRequested = 3
    /\ paged_result.list = Logins(2 * PER_PAGE + 1)

\* C20: a call with max_pages = k (k >= 1) makes at most k page requests,
\* for pages among 1..k, whatever the server holds and answers.
C20_AtMostMaxPages ==
    (paged_pc = "returned" /\ paged_call.max_pages >= 1) =>
        /\ PagesRequested <= paged_call.max_pages
        /\ \A i \in 1..PagesRequested :
              paged_result.log[i].page \in 1..paged_call.max_pages

\* max_pages = 2 against a list of more than two pages: pages 1 and 2 were
\* requested and the call returned their items
C20_Witness ==
    /\ paged_pc = "returned"
    /\ AllPagesServed
    /\ paged_call.max_pages = 2
    /\ paged_call.count > 2 * PER_PAGE
    /\ PagesRequested = 2
    /\ Len(paged_result.list) = 2 * PER_PAGE

(***************************************************************************)
(* Properties of the search (SpecDiscovery).                               *)
(***************************************************************************)
\* the users the search may not return
Excluded ==
    disc_call.ban_list \cup disc_call.current_followers \cup {config_username}

\* the followers of seed u that are eligible
EligibleOf(u) ==
    IF disc_call.served[u].failed THEN {}
    ELSE SeqToSet(disc_call.served[u].list) \ Excluded

\* the seeds of the call
SeedsOf == SeqToSet(disc_call.order)

\* C21: a search that starts from a seed with an eligible follower returns
\* a candidate, and every candidate is a follower of one of the users
\* visited that is not excluded.
C21_SeedFollowersBecomeCandidates ==
    (/\ disc_pc = "returned"
     /\ \E u \in SeedsOf : EligibleOf(u) # {})
    => /\ disc_result.list # <<>>
       /\ SeqToSet(disc_result.list) \subseteq
             UNION { EligibleOf(u) : u \in DiscNames }

\* C22: the list returned has at most `count` entries, they are pairwise
\* distinct, and none of them is on the ban list, a current follower or
\* the managed account.
C22_AtMostCountDistinctNotExcluded ==
    disc_pc = "returned" =>
        LET found == disc_result.list
        IN  /\ Len(found) <= disc_call.count
            /\ \A i, j \in 1..Len(found) : found[i] = found[j] => i = j
            /\ SeqToSet(found) \cap Excluded = {}

\* a search with seeds, one of which has an eligible follower, has returned
C22_Witness ==
    /\ disc_pc = "returned"
    /\ Cardinality(SeedsOf) >= 2
    /\ \E u \in SeedsOf : EligibleOf(u) # {}

\* C23: when the fetch for one seed fails and another seed of the same
\* sub-batch, the only one with followers, has an eligible follower, that
\* follower is examined and becomes a candidate.
C23_FailedSeedIsolated ==
    (/\ disc_pc = "returned"
     /\ \E u, v \in SeedsOf :
          /\ u # v
          /\ disc_call.served[u].failed
          /\ EligibleOf(v) # {}
          /\ \A w \in SeedsOf \ {v} : disc_call.served[w].list = <<>>)
    => /\ disc_result.examined # {}
       /\ disc_result.list # <<>>

(***************************************************************************)
(* Properties of the promotion step of the run (Spec).                     *)
(***************************************************************************)
\* the entries check_and_update_promoted_users loaded, and the active ones
LoadedAtStart == IF file_readable THEN file_at_start ELSE <<>>

ActiveEntry(u) == ~is_expired(u, days_period, Today)

ActiveAtStart == SelectSeq(LoadedAtStart, ActiveEntry)

\* the dated entry of username u in the file
StoredEntries(u) == { file[i] : i \in { j \in 1..Len(file) : file[j].username = u } }

\* C24: process_promotion calls find_users_to_promote if and only if the
\* number of active promoted users is below count_promotion_users, and
\* then asks for exactly the difference; every user returned that was not
\* in the file is stored with today's date and is among the followers.
C24_SearchForShortfall ==
    (run_pc \in {"mutating", "done"} /\ promotion) =>
        /\ search_request.invoked <=>
              Len(ActiveAtStart) < count_promotion_users
        /\ search_request.invoked =>
              search_request.count =
                 count_promotion_users - Len(ActiveAtStart)
        /\ \A u \in SeqToSet(search_request.found) :
              /\ u \in followers
              /\ StoredEntries(u) # {}
              /\ u \notin Usernames(ActiveAtStart) =>
                    StoredEntries(u) = { PromotedUser(u, Today) }

\* the promotion step has asked for users although the file had entries
C24_Witness ==
    /\ run_pc = "mutating"
    /\ promotion
    /\ search_request.invoked
    /\ search_request.count >= 1
    /\ file_at_start # <<>>

(***************************************************************************)
(* Properties of main_async around the run (Spec).                         *)
(***************************************************************************)
\* C25: when the connectivity check fails, the configuration cannot be
\* loaded or is invalid, or the manager has no ConfigManager to load the
\* ban lists from, no follow or unfollow call is issued.
C25_FatalErrorsBeforeMutation ==
    (\/ run_pc \in {"no_internet", "config_error", "no_config_manager"}
     \/ (~config_manager
           /\ run_pc \notin {"main", "connected", "config_loaded", "start"}))
    => /\ follow_calls = <<>>
       /\ unfollow_calls = <<>>
       /\ run_pc \in {"no_internet", "config_error", "no_config_manager"}

\* the run of a manager without ConfigManager has ended in load_ban_lists
C25_Witness ==
    /\ run_pc = "no_config_manager"
    /\ ~config_manager
    /\ srv_followers \ srv_following # {}

(***************************************************************************)
(* Properties of the statistics query (SpecStats).                         *)
(***************************************************************************)
\* what get_statistics reports and leaves in the state agrees with the
\* ban lists of config.yml
StatsFollowBans == get_combined_ban_list_followers(ban_lists)

StatsUnfollowBans == get_combined_ban_list_following(ban_lists)

StatsUseBanLists ==
    /\ stats.banned_followers = Cardinality(StatsFollowBans)
    /\ stats.banned_following = Cardinality(StatsUnfollowBans)
    /\ followers \cap StatsFollowBans = {}
    /\ following \cap StatsUnfollowBans = {}

\* C26: the statistics report the sizes of the two combined ban lists as
\* banned_followers and banned_following, and the fetched followers and
\* following are filtered by them, after a run and in stats_command.
C26_StatsUseBanLists == stats.returned => StatsUseBanLists

(***************************************************************************)
(* Properties of the two mutation streams (SpecStreams).                   *)
(***************************************************************************)
\* the calls of a stream that have been started
StartedCalls(st) ==
    { j \in 1..Len(st.calls) : st.calls[j].state # "created" }

\* the stream works on the sorted list, one call per username, in
\* sub-batches of batch_size
InSortedSubBatches(st) ==
    /\ st.pc # "called" /\ st.targets # <<>> =>
          st.users = sorted(SeqToSet(st.targets))
    /\ Len(st.calls) <= Len(st.users)
    /\ \A j \in 1..Len(st.calls) :
          /\ st.calls[j].username = st.users[j]
          /\ st.calls[j].batch = batch_size * ((j - 1) \div batch_size)

\* a call of a later sub-batch is started only after every call of the
\* sub-batches before it has completed
SubBatchesInTurn(st) ==
    \A j \in StartedCalls(st) :
        \A h \in 1..Len(st.calls) :
            st.calls[h].batch < st.calls[j].batch =>
                st.calls[h].state = "done"

\* a stream that has returned has called every target once and has a
\* result for every target
EveryTargetCalledOnce(st) ==
    st.pc = "returned" =>
        /\ Len(st.calls) = Len(st.targets)
        /\ \A u \in SeqToSet(st.targets) :
              Cardinality({ j \in 1..Len(st.calls) :
                              st.calls[j].username = u }) = 1
        /\ \A j \in 1..Len(st.calls) : st.calls[j].state = "done"
        /\ DOMAIN st.results = SeqToSet(st.targets)

\* C27: each stream sorts its targets and goes through them in
\* consecutive sub-batches of at most 5; no call of a sub-batch starts
\* before every call of the sub-batch before it has completed; every
\* target is called exactly once, whether the call fails or not.
C27_SortedSubBatchesOnce ==
    \A k \in StreamKinds :
        /\ InSortedSubBatches(streams[k])
        /\ SubBatchesInTurn(streams[k])
        /\ EveryTargetCalledOnce(streams[k])

\* a stream with more than one sub-batch has returned, with a failed call
\* in its first sub-batch
C27_Witness ==
    \E k \in StreamKinds :
        /\ streams[k].pc = "returned"
        /\ Len(streams[k].users) > batch_size
        /\ ~streams[k].calls[1].ok

\* the other stream
Other(k) == IF k = "follow" THEN "unfollow" ELSE "follow"

\* C28: the two streams run concurrently and independently: a stream
\* that has not returned can take its next step whatever the other one
\* is doing, and a stream returns with a result for every target
\* whatever calls have failed in either stream.
C28_StreamsIndependent ==
    \A k \in StreamKinds :
        /\ streams[k].pc # "returned" => ENABLED StreamStep(k)
        /\ streams[k].pc = "returned" =>
              DOMAIN streams[k].results = SeqToSet(streams[k].targets)

\* an unfollow call is in flight while the follow stream, which has had a
\* failed call, still has a sub-batch to create
C28_Witness ==
    /\ \E j \in 1..Len(streams["unfollow"].calls) :
          streams["unfollow"].calls[j].state = "started"
    /\ Len(streams["follow"].users) > batch_size
    /\ streams["follow"].i = 0
    /\ \E j \in 1..Len(streams["follow"].calls) :
          /\ streams["follow"].calls[j].state = "done"
          /\ ~streams["follow"].calls[j].ok

(***************************************************************************)
(* The order of the phases of a run (Spec).                                *)
(***************************************************************************)
\* a step of the run that issues a follow or an unfollow call
MutationStep ==
    follow_calls' # follow_calls \/ unfollow_calls' # unfollow_calls

\* a step of the run that fetches the two lists
FetchStep == fetch_log' # fetch_log

\* the step of the run that holds the promotion step and the delta
PromotionStep == run_pc # "mutating" /\ run_pc' = "mutating"

PhasesInOrder ==
    /\ FetchStep =>
          /\ run_pc = "ban_lists_loaded"
          /\ follow_calls = <<>> /\ unfollow_calls = <<>>
    /\ PromotionStep =>
          /\ fetch_log.followers # <<>>
          /\ fetch_log.following # <<>>
          /\ ~FetchStep
          /\ follow_calls = <<>> /\ unfollow_calls = <<>>
          /\ ~MutationStep
    /\ (file' # file \/ search_request' # search_request) => PromotionStep
    /\ MutationStep =>
          /\ run_pc = "mutating"
          /\ UNCHANGED << file, search_request, fetch_log, followers,
                          following, ban_list_followers, ban_list_following >>

\* C29: in a run the ban lists are loaded before any fetch, both fetches
\* have ended before the promotion step starts, and the promotion step,
\* with what it writes to the file, has ended before the first follow or
\* unfollow call is issued.
C29_PhasesInOrder == [][PhasesInOrder]_vars

\* a run with promotion has ended: it has searched for users, dropped an
\* expired entry from the file and issued follow and unfollow calls
C29_Witness ==
    /\ run_pc = "done"
    /\ promotion
    /\ search_request.invoked
    /\ file # file_at_start
    /\ follow_calls # <<>>
    /\ unfollow_calls # <<>>

C31_SearchTerminates ==
    disc_pc = "returned" =>
        /\ disc_result.levels <= disc_call.max_depth
        /\ \/ disc_result.promoted >= disc_call.count
           \/ disc_result.levels = disc_call.max_depth
           \/ disc_result.queue = <<>>
        /\ disc_call.current_followers = {} =>
              /\ disc_result.list = <<>>
              /\ disc_result.levels = 0
              /\ disc_result.batches = 0
              /\ disc_result.requested = {}

\* a search without followers has returned
C31_Witness ==
    /\ disc_pc = "returned"
    /\ disc_call.current_followers = {}
    /\ disc_call.count >= 1

\* a search with followers has returned after one level
C31_WitnessLevels ==
    /\ disc_pc = "returned"
    /\ disc_call.current_followers # {}
    /\ disc_result.levels >= 1

(***************************************************************************)
(* The rate-limit window of the client (SpecRequest).  self.rate_limit is  *)
(* an attribute of the client: a call starts with whatever window the      *)
(* calls before it and beside it left there.                               *)
(***************************************************************************)
\* the step received a response or a connection error
ResponseStep == Len(responses') = Len(responses) + 1

ReceivedResponse == responses'[Len(responses')]

WindowOf(resp) ==
    [present |-> TRUE, limit |-> 60, remaining |-> resp.remaining,
     reset_time |-> resp.reset]

WindowTracksHeaders ==
    /\ ResponseStep /\ ReceivedResponse.hdr =>
          rate_limit' = WindowOf(ReceivedResponse)
    /\ ResponseStep /\ ~ReceivedResponse.hdr =>
          /\ rate_limit' = rate_limit
          \* a 429 without headers waits on the window found on the client
          /\ ReceivedResponse.status = 429 /\ rate_limit.present =>
                sleeps' = Append(sleeps, retry_wait_time(rate_limit, now))
    /\ ~ResponseStep => rate_limit' = rate_limit

\* C32: every response with rate-limit headers, whatever its status,
\* replaces the client's window with the values of that response; a
\* response without them, a connection error and every other step leave
\* the window as it was; the window is the one attribute of the client,
\* so a call starts with and waits on the window other calls left.
C32_WindowTracksHeaders == [][WindowTracksHeaders]_vars

\* a 503 without headers was retried and a 404 with headers replaced the
\* window although the call raised
C32_Witness ==
    /\ responses = << Unavailable, NotFound >>
    /\ req_pc = "raised"
    /\ rate_limit = WindowOf(NotFound)

\* a 429 without headers waited on a window left on the client by another
\* call
C32_WitnessShared ==
    /\ responses = << TooManyBare >>
    /\ rate_limit = RateLimitInfo(60, 10, 8)
    /\ Len(sleeps) = 1

(***************************************************************************)
(* The session of the client around the managed scope (SpecStats).         *)
(***************************************************************************)
BeforeScope ==
    {"main", "connected", "no_internet", "config_loaded", "config_error",
     "stats_main"}

AfterScope == {"exited_ok", "exited_error"}

SessionOfScope ==
    /\ session.opened <= 1
    /\ run_pc \in BeforeScope => session.opened = 0 /\ session.closed = 0
    /\ run_pc \notin BeforeScope \cup AfterScope =>
          session.opened = 1 /\ session.closed = 0 /\ session.is_open
    /\ run_pc \in AfterScope =>
          session.opened = 1 /\ session.closed = 1 /\ ~session.is_open
    /\ session.orphan # "requested"

\* the step issues requests: a fetch of the run or of the statistics
\* query, or a follow / unfollow call
IssuesRequests ==
    \/ fetch_log' # fetch_log
    \/ follow_calls' # follow_calls
    \/ unfollow_calls' # unfollow_calls
    \/ run_pc' \in {"stats_done", "stats_failed"} /\ run_pc' # run_pc

SessionScope ==
    /\ SessionOfScope'
    /\ IssuesRequests => session.is_open /\ session'.is_open

\* C33: one ClientSession is created when the managed scope is entered;
\* it is closed exactly once when the scope is left, by completion or by
\* an exception of run or get_statistics; every step that issues
\* requests finds the session open and leaves it open; a fetch that the
\* gather left running does not get a request through the closed session.
C33_SessionClosedOnce == [][SessionScope]_vars

\* get_statistics raised after a complete run; the session was closed once
\* and the fetch that was left running was refused
C33_Witness ==
    /\ run_pc = "exited_error"
    /\ follow_calls # <<>>
    /\ session.opened = 1
    /\ session.closed = 1
    /\ session.orphan = "refused"

\* the run and the statistics query completed, and the session was closed
C33_WitnessCompleted ==
    /\ run_pc = "exited_ok"
    /\ stats.returned
    /\ stats.after_run
    /\ session.closed = 1

(***************************************************************************)
(* The end of a _make_request call and its permit (SpecRequestFair).       *)
(***************************************************************************)
AttemptsAndPermit ==
    /\ Len(responses) <= max_retries
    /\ req_pc = "idle" => sem_value = max_concurrent
    /\ req_pc = "loop" => sem_value = max_concurrent - 1
    /\ Terminated => sem_value = max_concurrent

\* C34: a call of _make_request makes at most 3 HTTP attempts and ends,
\* by a return or an exception, whatever the server answers; it holds one
\* permit of the semaphore while it runs and has given it back when it
\* has ended, so that all permits are free again.
C34_TerminatesAndReleases == []AttemptsAndPermit /\ <>Terminated

\* a call met a rate limit, a server error and a connection failure, and
\* raised after its third attempt with the permit given back
C34_Witness ==
    /\ responses = << TooMany, Unavailable, ConnError >>
    /\ req_pc = "raised"
    /\ sem_value = max_concurrent

(***************************************************************************)
(* A run that could not read promoted_users.txt (Spec).                    *)
(***************************************************************************)
\* C35: when a run with promotion enabled that could not read
\* promoted_users.txt is over, the file still holds every username it
\* held as an active entry when the run started, and none of them was the
\* target of an unfollow call.
C35_ReadFailureKeepsStore ==
    (run_pc = "done" /\ promotion /\ ~file_readable) =>
        \A u \in StoredAt(file_at_start, ActiveNow) :
            /\ u \in Usernames(file)
            /\ u \notin Called(unfollow_calls)

(***************************************************************************)
(* Follow calls and the following list the run fetched (Spec).             *)
(***************************************************************************)
\* C36: in a run whose two fetches were complete, so that the following
\* list it fetched is the one the server holds, no follow call is issued
\* for a username of that list.
C36_NoRefollow ==
    FetchComplete => Called(follow_calls) \cap srv_following = {}

(***************************************************************************)
(* The size of promoted_users.txt over successive runs (SpecRuns).         *)
(***************************************************************************)
\* C37: after any number of runs with promotion enabled and the same
\* count_promotion_users, promoted_users.txt has at most
\* max(count_promotion_users, entries at the start) entries, so at most
\* count_promotion_users when it started with no more, and no two of its
\* entries have the same username.
C37_StoreBounded ==
    /\ Len(file) <= Max(count_promotion_users, Len(file_at_start))
    /\ Len(file_at_start) <= count_promotion_users =>
          Len(file) <= count_promotion_users
    /\ \A i, j \in 1..Len(file) :
          file[i].username = file[j].username => i = j

\* two runs and more are over; the file started above the target, an
\* entry expired and was dropped, another is still kept, and the last
\* run asked the search for the user that is missing
C37_Witness ==
    /\ runs >= 2
    /\ Len(file_at_start) > count_promotion_users
    /\ file # <<>>
    /\ Len(file) < Len(file_at_start)
    /\ file_readable

(***************************************************************************)
(* The check of promoted_users.txt by the statistics query that follows a  *)
(* run (SpecStats): the second call of check_and_update_promoted_users of  *)
(* the session, on the same day as the first.                              *)
(***************************************************************************)
\* the file the run left: the active entries it loaded, and the users the
\* search returned
FileAfterRun == AppendNew(ActiveAtStart, search_request.found, Today)

\* C38: the check of the statistics query that follows a run with
\* promotion enabled finds the active list of the file the run left and
\* no expired entry, and leaves the file as the run left it; the
\* statistics report zero expired promoted users.
C38_SecondCheckChangesNothing ==
    (stats.returned /\ stats.after_run /\ promotion) =>
        /\ stats.promoted_expired = 0
        /\ stats.promoted_active = Cardinality(Usernames(FileAfterRun))
        /\ file = FileAfterRun

=============================================================================
